---- MODULE Spec2Model ----
(***************************************************************************)
(* Model of sentry_tool.commands.traces: the span tree builder             *)
(* _build_span_tree, run one loop iteration per step on a heap of SpanNode *)
(* objects.  An object reference is a number: RootRef for the root, and k  *)
(* for the SpanNode created from the k-th input span.                      *)
(***************************************************************************)
EXTENDS Integers, Sequences, FiniteSets, TLC

\* Longest input span list.
MaxSpans == 3

\* ------------------------------------------------------------------------
\* Python values
\* ------------------------------------------------------------------------

\* Python's None (dict.get without a default, an unset Optional).
None == "<None>"

\* Truth value of a str | None: None and "" are falsy.
Truthy(v) == v # None /\ v # ""

\* dict.get(key, default): a dict is a function whose domain is its keys.
Get(d, key, default) == IF key \in DOMAIN d THEN d[key] ELSE default

\* A dict with no keys.
EmptyDict == [k \in {} |-> None]

Range(f) == {f[k] : k \in DOMAIN f}

\* ------------------------------------------------------------------------
\* Inputs
\* ------------------------------------------------------------------------

\* root_span_id: absent from the trace context, empty, or a span id.
RootSpanIds == {None, "", "r"}

\* Non-empty span ids of the input ("r" is also the explicit root id).
SpanIds == {"a", "b", "r"}

\* parent_span_id values when the key is present ("x" is no span's id).
ParentIds == {"", "a", "b", "r", "x"}

\* The optional op / description / start_timestamp / timestamp keys of the k-th
\* record: every third record carries none of them, the others carry values
\* that differ from position to position.
Payload(k) ==
    IF k % 3 = 0
    THEN EmptyDict
    ELSE ("op" :> (IF k % 2 = 1 THEN "http" ELSE "db"))
         @@ ("description" :> ("span " \o ToString(k)))
         @@ ("start_timestamp" :> (k - 1))
         @@ ("timestamp" :> (2 * k))

\* The span_id and parent_span_id keys an input record is drawn from:
\* span_id missing or empty, or a span id with parent_span_id missing or
\* present.
IdKeys ==
    {("parent_span_id" :> "r"),
     ("span_id" :> "") @@ ("parent_span_id" :> "a")}
    \cup {("span_id" :> id) : id \in SpanIds}
    \cup {("span_id" :> id) @@ ("parent_span_id" :> p) : id \in SpanIds, p \in ParentIds}

\* The span list whose k-th record has the keys keys[k] and Payload(k).
SpanList(keys) == [k \in DOMAIN keys |-> keys[k] @@ Payload(k)]

\* ------------------------------------------------------------------------
\* _build_span_tree
\* ------------------------------------------------------------------------

\* The SpanNode dataclass; children holds object references.
SpanNode(span_id, parent_span_id, op, description, duration) ==
    [span_id |-> span_id, parent_span_id |-> parent_span_id, op |-> op,
     description |-> description, duration |-> duration, children |-> <<>>]

\* The reference held by the local variable root.
RootRef == 0

\* root = SpanNode(span_id=root_span_id or "root", ...)
NewRootAlwaysLiteral(rsid) == SpanNode("root", None, "transaction", "", 0)
NewRoot(rsid) ==
    SpanNode(IF Truthy(rsid) THEN rsid ELSE "root", None, "transaction", "", 0)

\* The locals after root is created and node_map = {}: heap maps references
\* to SpanNode objects, node_map maps span_id to a reference, order is the
\* insertion order of node_map's keys, warnings the span_ids logged.
EmptyBuild(rsid) ==
    [heap |-> (RootRef :> NewRoot(rsid)), node_map |-> EmptyDict,
     order |-> <<>>, warnings |-> <<>>]

\* One iteration of the first loop, on the span at position ref.
RegisterSpanLastWins(b, span, ref) ==
    LET span_id == Get(span, "span_id", "")
        node == SpanNode(span_id, Get(span, "parent_span_id", None),
                         Get(span, "op", "(unknown)"),
                         Get(span, "description", "(no description)"),
                         Get(span, "timestamp", 0) - Get(span, "start_timestamp", 0))
    IN  IF ~Truthy(span_id) THEN b
        ELSE [b EXCEPT !.heap = (ref :> node) @@ @,
                       !.node_map = (span_id :> ref) @@ @,
                       !.order = IF span_id \in DOMAIN b.node_map
                                 THEN @ ELSE Append(@, span_id)]
RegisterSpanKeepBlank(b, span, ref) ==
    LET span_id == Get(span, "span_id", "")
        node == SpanNode(span_id, Get(span, "parent_span_id", None),
                         Get(span, "op", "(unknown)"),
                         Get(span, "description", "(no description)"),
                         Get(span, "timestamp", 0) - Get(span, "start_timestamp", 0))
    IN  IF span_id \in DOMAIN b.node_map
        THEN [b EXCEPT !.warnings = Append(@, span_id)]
        ELSE [b EXCEPT !.heap = @ @@ (ref :> node),
                       !.node_map = @ @@ (span_id :> ref),
                       !.order = Append(@, span_id)]
RegisterSpan(b, span, ref) ==
    LET span_id == Get(span, "span_id", "")
    IN  IF ~Truthy(span_id) THEN b
        ELSE IF span_id \in DOMAIN b.node_map
        THEN [b EXCEPT !.warnings = Append(@, span_id)]
        ELSE LET duration == Get(span, "timestamp", 0) - Get(span, "start_timestamp", 0)
                 node == SpanNode(span_id, Get(span, "parent_span_id", None),
                                  Get(span, "op", "(unknown)"),
                                  Get(span, "description", "(no description)"),
                                  duration)
             IN  [b EXCEPT !.heap = @ @@ (ref :> node),
                           !.node_map = @ @@ (span_id :> ref),
                           !.order = Append(@, span_id)]

\* node_map[root.span_id] = root: an existing key keeps its position and
\* gets the root as its value.
InsertRoot(b) ==
    LET rid == b.heap[RootRef].span_id
    IN  [b EXCEPT !.node_map = (rid :> RootRef) @@ @,
                  !.order = IF rid \in DOMAIN b.node_map THEN @ ELSE Append(@, rid)]

\* `node is root`
IsRootNever(ref) == FALSE
IsRoot(ref) == ref = RootRef

\* `parent_id in node_map`, evaluated for the node registered under key.
ParentKnownOnePass(b, key, parent_id) ==
    \E m \in 1..Len(b.order) :
        /\ b.order[m] = parent_id
        /\ \E n \in m..Len(b.order) : b.order[n] = key
ParentKnown(b, key, parent_id) == parent_id \in DOMAIN b.node_map

\* One iteration of the second loop, on the node registered under key.
LinkNodeNoAdopt(b, key) ==
    LET node == b.node_map[key]
        parent_id == b.heap[node].parent_span_id
    IN  IF IsRoot(node) THEN b
        ELSE IF Truthy(parent_id) /\ ParentKnown(b, key, parent_id)
        THEN [b EXCEPT !.heap[b.node_map[parent_id]].children = Append(@, node)]
        ELSE b
LinkNodeAlsoRoot(b, key) ==
    LET node == b.node_map[key]
        parent_id == b.heap[node].parent_span_id
    IN  IF IsRoot(node) THEN b
        ELSE IF Truthy(parent_id) /\ ParentKnown(b, key, parent_id)
                /\ b.node_map[parent_id] # RootRef
        THEN [b EXCEPT !.heap[b.node_map[parent_id]].children = Append(@, node),
                       !.heap[RootRef].children = Append(@, node)]
        ELSE [b EXCEPT !.heap[RootRef].children = Append(@, node)]
LinkNodePrepend(b, key) ==
    LET node == b.node_map[key]
        parent_id == b.heap[node].parent_span_id
    IN  IF IsRoot(node) THEN b
        ELSE IF Truthy(parent_id) /\ ParentKnown(b, key, parent_id)
        THEN [b EXCEPT !.heap[b.node_map[parent_id]].children = <<node>> \o @]
        ELSE [b EXCEPT !.heap[RootRef].children = <<node>> \o @]
LinkNode(b, key) ==
    LET node == b.node_map[key]
    IN  IF IsRoot(node) THEN b
        ELSE LET parent_id == b.heap[node].parent_span_id
             IN  IF Truthy(parent_id) /\ ParentKnown(b, key, parent_id)
                 THEN [b EXCEPT !.heap[b.node_map[parent_id]].children = Append(@, node)]
                 ELSE [b EXCEPT !.heap[RootRef].children = Append(@, node)]

\* The whole function: both loops run to their end.
RECURSIVE RegisterAll(_, _, _)
RegisterAll(b, spanList, k) ==
    IF k > Len(spanList) THEN b
    ELSE RegisterAll(RegisterSpan(b, spanList[k], k), spanList, k + 1)

RECURSIVE LinkAll(_, _)
LinkAll(b, k) ==
    IF k > Len(b.order) THEN b
    ELSE LinkAll(LinkNode(b, b.order[k]), k + 1)

BuildSpanTree(spanList, rsid) ==
    LinkAll(InsertRoot(RegisterAll(EmptyBuild(rsid), spanList, 1)), 1)

\* ------------------------------------------------------------------------
\* State
\* ------------------------------------------------------------------------

\* spans, root_span_id: the arguments of _build_span_tree; pc, idx: the
\* position in the running function and in its loop; heap, node_map, order,
\* warnings: the locals of _build_span_tree.  args: the other arguments and
\* locals of the running command or function; events: the records an API response holds;
\* out: what was printed, logged or called so far; exit_code: how the command
\* ended; earlier: what the caller kept of an earlier call.
VARIABLES spans, root_span_id, pc, idx, heap, node_map, order, warnings,
          args, events, out, exit_code, earlier,
          active_profile, active_project, environ, app_config

vars == <<spans, root_span_id, pc, idx, heap, node_map, order, warnings,
          args, events, out, exit_code, earlier,
          active_profile, active_project, environ, app_config>>

\* The state of the process that the configuration is resolved from:
\* active_profile, active_project: the globals _active_profile and
\* _active_project of utils.py; environ: os.environ; app_config: what
\* load_config returns.
process == <<active_profile, active_project, environ, app_config>>

\* The process before any invocation, with nothing configured.
IdleProcess ==
    /\ active_profile = None
    /\ active_project = None
    /\ environ = EmptyDict
    /\ app_config = EmptyDict

\* What a call of _build_span_tree neither reads nor writes.
outside == <<args, events, out, exit_code, earlier, process>>

\* ------------------------------------------------------------------------
\* One call of _build_span_tree
\* ------------------------------------------------------------------------

Locals == [heap |-> heap, node_map |-> node_map, order |-> order, warnings |-> warnings]

SetLocals(b) ==
    /\ heap' = b.heap
    /\ node_map' = b.node_map
    /\ order' = b.order
    /\ warnings' = b.warnings

Init ==
    /\ \E n \in 0..MaxSpans : \E keys \in [1..n -> IdKeys] : spans = SpanList(keys)
    /\ root_span_id \in RootSpanIds
    /\ pc = "call"
    /\ idx = 1
    /\ heap = EmptyDict
    /\ node_map = EmptyDict
    /\ order = <<>>
    /\ warnings = <<>>
    /\ args = None
    /\ events = <<>>
    /\ out = <<>>
    /\ exit_code = None
    /\ earlier = None
    /\ IdleProcess

\* Lines 172-181: the root and the empty node_map.
Call ==
    /\ pc = "call"
    /\ SetLocals(EmptyBuild(root_span_id))
    /\ pc' = "register"
    /\ idx' = 1
    /\ UNCHANGED <<spans, root_span_id, outside>>

\* Lines 182-196: one iteration of `for span in spans`.
Register ==
    /\ pc = "register"
    /\ idx <= Len(spans)
    /\ SetLocals(RegisterSpan(Locals, spans[idx], idx))
    /\ idx' = idx + 1
    /\ UNCHANGED <<spans, root_span_id, pc, outside>>

\* Line 198, once the first loop is exhausted.
RegisterRoot ==
    /\ pc = "register"
    /\ idx > Len(spans)
    /\ SetLocals(InsertRoot(Locals))
    /\ pc' = "link"
    /\ idx' = 1
    /\ UNCHANGED <<spans, root_span_id, outside>>

\* Lines 200-207: one iteration of `for node in node_map.values()`.
Link ==
    /\ pc = "link"
    /\ idx <= Len(order)
    /\ SetLocals(LinkNode(Locals, order[idx]))
    /\ idx' = idx + 1
    /\ UNCHANGED <<spans, root_span_id, pc, outside>>

\* Line 209: return root.
Return ==
    /\ pc = "link"
    /\ idx > Len(order)
    /\ pc' = "done"
    /\ UNCHANGED <<spans, root_span_id, idx, heap, node_map, order, warnings, outside>>

Next == Call \/ Register \/ RegisterRoot \/ Link \/ Return

Spec == Init /\ [][Next]_vars

\* ------------------------------------------------------------------------
\* Reading the result
\* ------------------------------------------------------------------------

Done == pc = "done"

\* The span_id the k-th input record is read with (line 183).
InputId(spanList, k) == Get(spanList[k], "span_id", "")

\* The parent_span_id the k-th input record is read with (line 192).
InputParent(spanList, k) == Get(spanList[k], "parent_span_id", None)

InputIds(spanList) == {InputId(spanList, k) : k \in 1..Len(spanList)}

\* The span_id of the root of the running call.
RootId == heap[RootRef].span_id

\* The nodes the tree is made of: the values of node_map.
TreeNodes(b) == Range(b.node_map)

\* The references reachable from the root through children lists.
RECURSIVE ReachFrom(_, _, _)
ReachFrom(b, frontier, seen) ==
    IF frontier = {} THEN seen
    ELSE LET kids == UNION {Range(b.heap[o].children) : o \in frontier}
         IN  ReachFrom(b, kids \ (seen \cup frontier), seen \cup frontier)

Reachable(b) == ReachFrom(b, {RootRef}, {})

\* How many times ref occurs in the children lists of all objects.
Occurrences(b, ref) ==
    Cardinality(UNION {{<<o, m>> : m \in {n \in DOMAIN b.heap[o].children :
                                            b.heap[o].children[n] = ref}} :
                       o \in DOMAIN b.heap})

\* The tree by span_id: every node's fields, its children as span_ids.
View(b) ==
    [id \in DOMAIN b.node_map |->
        LET o == b.node_map[id]
        IN  [b.heap[o] EXCEPT !.children =
                [m \in DOMAIN b.heap[o].children |-> b.heap[b.heap[o].children[m]].span_id]]]

\* The parent-to-child edges by span_id.
Edges(b) ==
    UNION {{<<b.heap[o].span_id, b.heap[b.heap[o].children[m]].span_id>> :
              m \in DOMAIN b.heap[o].children} : o \in DOMAIN b.heap}

RemoveAt(s, k) == [m \in 1..(Len(s) - 1) |-> IF m < k THEN s[m] ELSE s[m + 1]]

Permuted(s, p) == [m \in 1..Len(s) |-> s[p[m]]]

\* All span_ids non-empty and pairwise distinct.
UniqueNonEmpty(spanList) ==
    /\ \A k \in 1..Len(spanList) : Truthy(InputId(spanList, k))
    /\ \A k, m \in 1..Len(spanList) :
          InputId(spanList, k) = InputId(spanList, m) => k = m

\* Following parent_span_id from id leaves the span list within fuel steps.
RECURSIVE ClimbsOut(_, _, _)
ClimbsOut(spanList, id, fuel) ==
    IF id \notin InputIds(spanList) THEN TRUE
    ELSE IF fuel = 0 THEN FALSE
    ELSE LET k == CHOOSE m \in 1..Len(spanList) : InputId(spanList, m) = id
         IN  ClimbsOut(spanList, InputParent(spanList, k), fuel - 1)

\* No span is its own ancestor.
Acyclic(spanList) ==
    \A k \in 1..Len(spanList) :
        ClimbsOut(spanList, InputId(spanList, k), Len(spanList))

\* ------------------------------------------------------------------------
\* Claims
\* ------------------------------------------------------------------------

\* C1 (as stated): for N spans with non-empty, pairwise distinct span_ids and
\* any root_span_id, exactly N non-root nodes are reachable from the returned
\* root, one per input span.
C1_AllSpansReachable ==
    (Done /\ UniqueNonEmpty(spans)) =>
        /\ Cardinality(Reachable(Locals) \ {RootRef}) = Len(spans)
        /\ \A k \in 1..Len(spans) : k \in Reachable(Locals)

\* C1 (amended): the same, for span lists in which moreover no span_id is the
\* root's id and no span is its own ancestor through parent_span_id.
C1_AcyclicSpansReachable ==
    (/\ Done
     /\ UniqueNonEmpty(spans)
     /\ RootId \notin InputIds(spans)
     /\ Acyclic(spans)) =>
        /\ Cardinality(Reachable(Locals) \ {RootRef}) = Len(spans)
        /\ \A k \in 1..Len(spans) : k \in Reachable(Locals)

C1_Witness ==
    /\ Done
    /\ Len(spans) >= 3
    /\ UniqueNonEmpty(spans)
    /\ RootId \notin InputIds(spans)
    /\ Acyclic(spans)
    /\ \E k \in 1..Len(spans) : heap[k].children # <<>>
    /\ \E k \in 1..Len(spans) : InputParent(spans, k) = "x"

\* The input positions whose SpanNode is a non-root node of the tree.
Registered(b) == TreeNodes(b) \ {RootRef}

\* C2: a registered span whose parent_span_id is None, empty, or neither an
\* input span_id nor the root's id is in the root's children list and in no
\* other children list.
C2_OrphanUnderRoot ==
    Done =>
        \A k \in Registered(Locals) :
            LET p == InputParent(spans, k)
            IN  (~Truthy(p) \/ p \notin (InputIds(spans) \cup {RootId})) =>
                    /\ k \in Range(heap[RootRef].children)
                    /\ \A o \in DOMAIN heap \ {RootRef} :
                          k \notin Range(heap[o].children)

C2_Witness ==
    /\ Done
    /\ \E k \in Registered(Locals) : "parent_span_id" \notin DOMAIN spans[k]
    /\ \E k \in Registered(Locals) : InputParent(spans, k) = ""
    /\ \E k \in Registered(Locals) :
          /\ InputParent(spans, k) = "x"
          /\ k \in Range(heap[RootRef].children)

\* The positions of the input spans read with span_id id.
Positions(spanList, id) == {k \in 1..Len(spanList) : InputId(spanList, k) = id}

First(S) == CHOOSE k \in S : \A m \in S : k <= m

\* The tree has exactly one node with span_id id, it has the op, description,
\* duration and parent of the first input span with that id, and the tree is
\* the one built without any one of the later spans with that id.
FirstSpanWins(id) ==
    LET first == First(Positions(spans, id))
        nodes == {o \in TreeNodes(Locals) : heap[o].span_id = id}
    IN  /\ Cardinality(nodes) = 1
        /\ \A o \in nodes :
              /\ heap[o].op = Get(spans[first], "op", "(unknown)")
              /\ heap[o].description =
                    Get(spans[first], "description", "(no description)")
              /\ heap[o].duration = Get(spans[first], "timestamp", 0)
                                    - Get(spans[first], "start_timestamp", 0)
              /\ heap[o].parent_span_id = InputParent(spans, first)
        /\ \A m \in Positions(spans, id) \ {first} :
              /\ m \notin DOMAIN heap
              /\ View(BuildSpanTree(RemoveAt(spans, m), root_span_id)) = View(Locals)

\* The non-empty span_ids that several input spans share.
SharedIds == {id \in InputIds(spans) : Truthy(id) /\ Cardinality(Positions(spans, id)) >= 2}

\* C3 (as stated): for every span_id shared by several input spans the first
\* such span wins and the later ones add no node and change nothing.
C3_FirstSpanWins == Done => \A id \in SharedIds : FirstSpanWins(id)

\* C3 (amended): the same, for every shared span_id other than the root's id.
C3_FirstSpanWinsExceptRootId ==
    Done => \A id \in SharedIds \ {RootId} : FirstSpanWins(id)

C3_Witness ==
    /\ Done
    /\ \E id \in SharedIds \ {RootId} :
          \E k, m \in Positions(spans, id) :
              /\ k < m
              /\ InputParent(spans, k) # InputParent(spans, m)
              /\ Get(spans[k], "op", "(unknown)") # Get(spans[m], "op", "(unknown)")
              /\ k \in Registered(Locals)
    /\ Cardinality(Registered(Locals)) >= 2

\* C4: for unique non-empty span_ids every permutation of the input builds
\* the same set of parent-to-child edges, and a span whose parent_span_id is
\* another span's id is attached under it wherever the two are in the list.
C4_EdgesOrderIndependent ==
    (Done /\ UniqueNonEmpty(spans)) =>
        /\ \A p \in Permutations(1..Len(spans)) :
              Edges(BuildSpanTree(Permuted(spans, p), root_span_id)) = Edges(Locals)
        /\ \A k, m \in 1..Len(spans) :
              (InputId(spans, k) # RootId /\ InputParent(spans, k) = InputId(spans, m))
                  => <<InputId(spans, m), InputId(spans, k)>> \in Edges(Locals)

C4_Witness ==
    /\ Done
    /\ UniqueNonEmpty(spans)
    /\ Len(spans) >= 3
    /\ \E k, m \in Registered(Locals) :
          /\ k < m
          /\ InputParent(spans, k) = InputId(spans, m)
          /\ k \in Range(heap[m].children)

\* C5: for any input, every registered non-root node occurs exactly once in
\* the children lists of all nodes together, and the root occurs in none.
C5_OneParentEach ==
    Done =>
        /\ \A k \in Registered(Locals) : Occurrences(Locals, k) = 1
        /\ Occurrences(Locals, RootRef) = 0

C5_Witness ==
    /\ Done
    /\ Cardinality(Registered(Locals)) >= 2
    /\ \E k \in Registered(Locals) : heap[k].children # <<>>
    /\ \E k \in Registered(Locals) : InputParent(spans, k) = RootId

\* Registered spans A and B, each the other's parent.
MutualParents(a, c) ==
    /\ a # c
    /\ a \in Registered(Locals)
    /\ c \in Registered(Locals)
    /\ InputParent(spans, a) = InputId(spans, c)
    /\ InputParent(spans, c) = InputId(spans, a)

\* C6: two registered spans that name each other as parent end in each
\* other's children list, and neither is a child of the root or reachable
\* from the root; the call still returns.
C6_MutualParentsDetached ==
    Done =>
        \A a, c \in 1..Len(spans) :
            MutualParents(a, c) =>
                /\ a \in Range(heap[c].children)
                /\ c \in Range(heap[a].children)
                /\ a \notin Range(heap[RootRef].children)
                /\ c \notin Range(heap[RootRef].children)
                /\ a \notin Reachable(Locals)
                /\ c \notin Reachable(Locals)

C6_Witness ==
    /\ Done
    /\ \E a, c \in 1..Len(spans) : MutualParents(a, c)
    /\ heap[RootRef].children # <<>>

\* How many entries of the sequence s equal v.
Count(s, v) == Cardinality({k \in DOMAIN s : s[k] = v})

\* C7: an input span whose span_id is the root's id adds no node, the
\* returned root is the transaction root, and every such span is reported by
\* a duplicate warning.
C7_RootIdSpanWarned ==
    Done =>
        /\ \A k \in Positions(spans, RootId) : k \notin TreeNodes(Locals)
        /\ node_map[RootId] = RootRef
        /\ heap[RootRef].op = "transaction"
        /\ Count(warnings, RootId) = Cardinality(Positions(spans, RootId))

\* C8: the root's span_id is root_span_id when one is given and "root" when
\* it is None; its op is "transaction", its description empty, its duration 0
\* and it has no parent, whatever the span list holds.
C8_RootFields ==
    Done =>
        /\ Truthy(root_span_id) => heap[RootRef].span_id = root_span_id
        /\ root_span_id = None => heap[RootRef].span_id = "root"
        /\ heap[RootRef].op = "transaction"
        /\ heap[RootRef].description = ""
        /\ heap[RootRef].duration = 0
        /\ heap[RootRef].parent_span_id = None
        /\ node_map[heap[RootRef].span_id] = RootRef

C8_Witness ==
    /\ Done
    /\ root_span_id = "r"
    /\ \E k \in 1..Len(spans) : InputId(spans, k) = "r" /\ "op" \in DOMAIN spans[k]
    /\ \E k \in 1..Len(spans) : InputParent(spans, k) = "r"

\* C9: with an empty span list the returned root carries the given root
\* identifier and has no children.
C9_EmptySpansBareRoot ==
    (Done /\ spans = <<>>) =>
        /\ Truthy(root_span_id) => heap[RootRef].span_id = root_span_id
        /\ heap[RootRef].children = <<>>
        /\ TreeNodes(Locals) = {RootRef}

C9_Witness == Done /\ spans = <<>> /\ root_span_id = "r"

\* The input positions whose record has no span_id or an empty one.
Blank(spanList) == {k \in 1..Len(spanList) : ~Truthy(InputId(spanList, k))}

\* C10: a record without span_id or with an empty one yields no node and no
\* warning, and the result is the one built from the list without it.
C10_BlankSpanSkipped ==
    Done =>
        \A k \in Blank(spans) :
            LET without == BuildSpanTree(RemoveAt(spans, k), root_span_id)
            IN  /\ k \notin DOMAIN heap
                /\ \A o \in DOMAIN heap : Truthy(heap[o].span_id)
                /\ View(without) = View(Locals)
                /\ without.order = order
                /\ without.warnings = warnings

C10_Witness ==
    /\ Done
    /\ \E k \in Blank(spans) : "span_id" \notin DOMAIN spans[k]
    /\ \E k, m \in Registered(Locals) :
          k # m /\ m \in Range(heap[k].children)

\* C11: every children list, the root's included, holds its nodes in the
\* order in which their spans first come in the input list, whatever their
\* start times and span_ids are.
C11_ChildrenInInputOrder ==
    Done =>
        \A o \in DOMAIN heap :
            \A m, n \in DOMAIN heap[o].children :
                m < n => heap[o].children[m] < heap[o].children[n]

\* Two children of one node whose input order is neither their start-time order
\* nor the order of their span_ids.
C11_Witness ==
    /\ Done
    /\ \E o \in DOMAIN heap :
          \E m, n \in DOMAIN heap[o].children :
              LET c == heap[o].children[m]
                  d == heap[o].children[n]
              IN  /\ m < n
                  /\ Get(spans[c], "start_timestamp", 0) > Get(spans[d], "start_timestamp", 0)
                  /\ heap[c].span_id = "b"
                  /\ heap[d].span_id = "a"
                  /\ o # RootRef

\* ------------------------------------------------------------------------
\* _render_span_tree
\* ------------------------------------------------------------------------

\* MAX_DESCRIPTION_LENGTH
MAX_DESCRIPTION_LENGTH == 50

\* Lines 225-227: the description as it is put in a label.
LabelDescription(desc) ==
    IF Len(desc) > MAX_DESCRIPTION_LENGTH
    THEN SubSeq(desc, 1, MAX_DESCRIPTION_LENGTH - 3) \o "..."
    ELSE desc

\* Line 228: the label of a child; depth is the branch level rich.Tree gives
\* it.  The duration is printed with three decimals; the model keeps the number.
ChildLabel(node, depth) ==
    [line |-> "node", depth |-> depth, op |-> node.op,
     description |-> LabelDescription(node.description), duration |-> node.duration]

\* Lines 223-230: _add_children from the m-th child of node on, in pre-order.
RECURSIVE AddChildren(_, _, _, _)
AddChildrenSiblingsFirst(h, node, m, depth) ==
    IF m > Len(h[node].children) THEN <<>>
    ELSE LET child == h[node].children[m]
         IN  <<ChildLabel(h[child], depth)>>
             \o AddChildren(h, node, m + 1, depth)
             \o AddChildren(h, child, 1, depth + 1)
AddChildren(h, node, m, depth) ==
    IF m > Len(h[node].children) THEN <<>>
    ELSE LET child == h[node].children[m]
         IN  <<ChildLabel(h[child], depth)>>
             \o AddChildren(h, child, 1, depth + 1)
             \o AddChildren(h, node, m + 1, depth)

\* Lines 221-234: the tree, then the summary line.
RenderSpanTree(h, root, total_spans, txn_duration) ==
    <<[line |-> "root", depth |-> 0, op |-> h[root].op,
       description |-> h[root].description]>>
    \o AddChildren(h, root, 1, 1)
    \o <<[line |-> "summary", total_spans |-> total_spans,
          txn_duration |-> txn_duration]>>

\* A description of n characters.
RECURSIVE Chars(_)
Chars(n) == IF n = 0 THEN "" ELSE "A" \o Chars(n - 1)

\* The description lengths of the rendered spans, around the threshold.
DescLengths == {30, 31, 50, 51}

\* The description key of a rendered span: missing, or of one of the lengths.
DescKeys == {EmptyDict} \cup {("description" :> Chars(n)) : n \in DescLengths}

\* The span_id and parent_span_id keys of the rendered spans.
RenderIdKeys ==
    {("span_id" :> "a"), ("span_id" :> "b"), ("span_id" :> "c"),
     ("span_id" :> "a") @@ ("parent_span_id" :> "b"),
     ("span_id" :> "b") @@ ("parent_span_id" :> "a")}

\* The rendered span list: the k-th record has the keys keys[k], descs[k], an
\* op and its timestamps.
RenderSpanList(keys, descs) ==
    [k \in DOMAIN keys |->
        keys[k] @@ descs[k] @@ ("op" :> "db") @@ ("start_timestamp" :> 0)
        @@ ("timestamp" :> k)]

\* transaction durations in milliseconds: _extract_spans divides by 1000 and
\* the summary prints three decimals, so the model keeps the milliseconds.
TxnDurations == {0, 500}

\* The tree is the one _build_span_tree returns for the span list.
InitRender ==
    /\ \E n \in 0..MaxSpans :
          \E keys \in [1..n -> RenderIdKeys] : \E descs \in [1..n -> DescKeys] :
              spans = RenderSpanList(keys, descs)
    /\ root_span_id = "r"
    /\ pc = "render"
    /\ idx = 1
    /\ LET b == BuildSpanTree(spans, root_span_id)
       IN  /\ heap = b.heap
           /\ node_map = b.node_map
           /\ order = b.order
           /\ warnings = b.warnings
    /\ \E d \in TxnDurations : args = [total_spans |-> Len(spans), txn_duration |-> d]
    /\ events = <<>>
    /\ out = <<>>
    /\ exit_code = None
    /\ earlier = None
    /\ IdleProcess

\* Lines 218-234: the whole of _render_span_tree.
Render ==
    /\ pc = "render"
    /\ out' = RenderSpanTree(heap, RootRef, args.total_spans, args.txn_duration)
    /\ pc' = "rendered"
    /\ UNCHANGED <<spans, root_span_id, idx, heap, node_map, order, warnings,
                   args, events, exit_code, earlier, process>>

NextRender == Render

SpecRender == InitRender /\ [][NextRender]_vars

\* The nodes the renderer visits below the root, in pre-order.
RECURSIVE PreOrder(_, _, _)
PreOrder(h, node, m) ==
    IF m > Len(h[node].children) THEN <<>>
    ELSE <<h[node].children[m]>> \o PreOrder(h, h[node].children[m], 1)
         \o PreOrder(h, node, m + 1)

\* C12: a description longer than 30 characters is rendered as its first 27
\* characters and "...", 30 characters in all; one of at most 30 is rendered
\* as it is.
C12_TruncatedAtThirty ==
    pc = "rendered" =>
        LET visited == PreOrder(heap, RootRef, 1)
        IN  \A m \in DOMAIN visited :
                LET desc == heap[visited[m]].description
                    text == out[m + 1].description
                IN  IF Len(desc) > 30
                    THEN text = SubSeq(desc, 1, 27) \o "..." /\ Len(text) = 30
                    ELSE text = desc

\* ------------------------------------------------------------------------
\* _render_timeline
\* ------------------------------------------------------------------------

\* bar_width
bar_width == 40

\* s[:n]: the slice stops at the end of s, and a negative n counts from the
\* end.
Prefix(s, n) ==
    LET stop == IF n < 0 THEN Len(s) + n ELSE n
    IN  IF stop >= Len(s) THEN s
        ELSE IF stop <= 0 THEN SubSeq(s, 1, 0)
        ELSE SubSeq(s, 1, stop)

\* min(...) and max(...) over a non-empty sequence of numbers.
Min(s) == CHOOSE v \in Range(s) : \A w \in Range(s) : v <= w
Max(s) == CHOOSE v \in Range(s) : \A w \in Range(s) : v >= w

\* int(n / d) for d # 0: Python's int() drops the fraction, towards zero.
IntOf(n, d) ==
    LET an == IF n < 0 THEN -n ELSE n
        ad == IF d < 0 THEN -d ELSE d
        q == an \div ad
    IN  IF (n < 0) = (d < 0) THEN q ELSE -q

\* Lines 238-240: min_start, max_end and total_duration of a span list.
TimelineAxis(spanList) ==
    LET min_start == Min([k \in DOMAIN spanList |-> Get(spanList[k], "start_timestamp", 0)])
        max_end == Max([k \in DOMAIN spanList |-> Get(spanList[k], "timestamp", 0)])
    IN  [min_start |-> min_start, max_end |-> max_end,
         total_duration |-> max_end - min_start]

\* Line 242: `if total_duration <= 0`.
ZeroDurationOnlyZero(total_duration) == total_duration = 0
ZeroDuration(total_duration) == total_duration <= 0

\* Line 261: pos = int(offset / total_duration * bar_width).
BarPosOneBased(offset, total_duration) == IntOf(offset * bar_width, total_duration) + 1
BarPos(offset, total_duration) == IntOf(offset * bar_width, total_duration)

\* Line 262: length = max(1, int(duration / total_duration * bar_width)).
BarLengthUnclamped(duration, total_duration) == IntOf(duration * bar_width, total_duration)
BarLength(duration, total_duration) ==
    LET units == IntOf(duration * bar_width, total_duration)
    IN  IF units > 1 THEN units ELSE 1

\* Lines 256-271: the table row of one span.  Offset and duration are printed
\* with three decimals; the model keeps the numbers.
TimelineRow(span, axis) ==
    LET start == Get(span, "start_timestamp", 0)
        end == Get(span, "timestamp", 0)
        offset == start - axis.min_start
        duration == end - start
    IN  [line |-> "row", op |-> Get(span, "op", ""),
         description |-> Prefix(Get(span, "description", ""), 35),
         offset |-> offset, duration |-> duration,
         pos |-> BarPos(offset, axis.total_duration),
         length |-> BarLength(duration, axis.total_duration)]

\* The whole function: what it prints for a non-empty span list.
RECURSIVE TimelineRows(_, _, _)
TimelineRows(spanList, axis, k) ==
    IF k > Len(spanList) THEN <<>>
    ELSE <<TimelineRow(spanList[k], axis)>> \o TimelineRows(spanList, axis, k + 1)

RenderTimeline(spanList) ==
    LET axis == TimelineAxis(spanList)
    IN  IF ZeroDuration(axis.total_duration)
        THEN <<[line |-> "cannot render timeline"]>>
        ELSE TimelineRows(spanList, axis, 1)
             \o <<[line |-> "total duration", total_duration |-> axis.total_duration]>>

\* Instants of the spans on the timeline, in one unit of time; a record may
\* also lack either key, which reads as 0.
Instants == {1, 2, 4}

TimeKeys ==
    {EmptyDict} \cup {("start_timestamp" :> t) : t \in Instants}
    \cup {("timestamp" :> t) : t \in Instants}
    \cup {("start_timestamp" :> t) @@ ("timestamp" :> u) : t, u \in Instants}

TimelineSpanList(keys) ==
    [k \in DOMAIN keys |->
        keys[k] @@ ("op" :> "db") @@ ("description" :> ("span " \o ToString(k)))]

\* _render_timeline is called with a non-empty span list (line 350).
InitTimeline ==
    /\ \E n \in 1..MaxSpans : \E keys \in [1..n -> TimeKeys] :
          spans = TimelineSpanList(keys)
    /\ root_span_id = None
    /\ pc = "timeline"
    /\ idx = 1
    /\ heap = EmptyDict
    /\ node_map = EmptyDict
    /\ order = <<>>
    /\ warnings = <<>>
    /\ args = None
    /\ events = <<>>
    /\ out = <<>>
    /\ exit_code = None
    /\ earlier = None
    /\ IdleProcess

building == <<root_span_id, heap, node_map, order, warnings>>

\* Lines 238-244: the axis, and the return when it has no length.
TimelineZero ==
    /\ pc = "timeline"
    /\ ZeroDuration(TimelineAxis(spans).total_duration)
    /\ args' = TimelineAxis(spans)
    /\ out' = Append(out, [line |-> "cannot render timeline"])
    /\ pc' = "returned"
    /\ UNCHANGED <<spans, idx, events, exit_code, earlier, process, building>>

\* Lines 238-253: the axis, and the empty table.
TimelineTable ==
    /\ pc = "timeline"
    /\ ~ZeroDuration(TimelineAxis(spans).total_duration)
    /\ args' = TimelineAxis(spans)
    /\ pc' = "rows"
    /\ idx' = 1
    /\ UNCHANGED <<spans, events, out, exit_code, earlier, process, building>>

\* Lines 255-271: one iteration of `for span in spans`.
TimelineAddRow ==
    /\ pc = "rows"
    /\ idx <= Len(spans)
    /\ out' = Append(out, TimelineRow(spans[idx], args))
    /\ idx' = idx + 1
    /\ UNCHANGED <<spans, pc, args, events, exit_code, earlier, process, building>>

\* Lines 273-275: the table and the total duration are printed.
TimelinePrint ==
    /\ pc = "rows"
    /\ idx > Len(spans)
    /\ out' = Append(out, [line |-> "total duration", total_duration |-> args.total_duration])
    /\ pc' = "returned"
    /\ UNCHANGED <<spans, idx, args, events, exit_code, earlier, process, building>>

NextTimeline == TimelineZero \/ TimelineTable \/ TimelineAddRow \/ TimelinePrint

SpecTimeline == InitTimeline /\ [][NextTimeline]_vars

\* max(end) - min(start) of the input, read off the span list.
TotalDuration ==
    Max([k \in DOMAIN spans |-> Get(spans[k], "timestamp", 0)])
    - Min([k \in DOMAIN spans |-> Get(spans[k], "start_timestamp", 0)])

\* C14: with max(end) - min(start) <= 0 the call never reaches the loop that
\* divides by the total duration, and it returns having printed the "cannot
\* render timeline" line and no table row.
C14_ZeroDurationNoBar ==
    TotalDuration <= 0 =>
        /\ pc \in {"timeline", "returned"}
        /\ pc = "returned" => out = <<[line |-> "cannot render timeline"]>>

\* All spans share one start and one end instant, and the call has returned.
C14_Witness ==
    /\ pc = "returned"
    /\ Len(spans) >= 2
    /\ \A k \in DOMAIN spans :
          /\ Get(spans[k], "start_timestamp", 0) = 2
          /\ Get(spans[k], "timestamp", 0) = 2
    /\ out = <<[line |-> "cannot render timeline"]>>

\* C15: with a positive total duration there is one row per input span, in
\* input order, its offset floor((start - min_start) / total * 40) and its
\* length max(1, floor((end - start) / total * 40)), hence at least 1.
C15_OneBarPerSpan ==
    (pc = "returned" /\ TotalDuration > 0) =>
        LET total == TotalDuration
            min_start == Min([k \in DOMAIN spans |-> Get(spans[k], "start_timestamp", 0)])
        IN  /\ Len(out) = Len(spans) + 1
            /\ \A k \in DOMAIN spans :
                  LET start == Get(spans[k], "start_timestamp", 0)
                      end == Get(spans[k], "timestamp", 0)
                      floorLen == ((end - start) * 40) \div total
                  IN  /\ out[k].line = "row"
                      /\ out[k].description = spans[k].description
                      /\ out[k].offset = start - min_start
                      /\ out[k].duration = end - start
                      /\ out[k].pos = ((start - min_start) * 40) \div total
                      /\ out[k].length = (IF floorLen > 1 THEN floorLen ELSE 1)
                      /\ out[k].length >= 1

\* A span of negative duration whose quotient is no whole number (floor and
\* truncation differ), next to one of zero duration and one drawn off zero.
C15_Witness ==
    /\ pc = "returned"
    /\ TotalDuration = 3
    /\ \E k, m, n \in DOMAIN spans :
          /\ out[k].duration = -1 /\ out[k].length = 1
          /\ out[m].duration = 0 /\ out[m].length = 1
          /\ out[n].pos = 13 /\ out[n].length > 1

\* ------------------------------------------------------------------------
\* render (output.py)
\* ------------------------------------------------------------------------

\* What render prints: the JSON of the data, or, for data that is not empty,
\* a table and the footer.
RenderList(data, format, footer) ==
    IF format = "json" THEN <<[line |-> "json", data |-> data]>>
    ELSE IF data = <<>> THEN <<>>
    ELSE <<[line |-> "table", rows |-> data, footer |-> footer]>>

\* ------------------------------------------------------------------------
\* lookup_trace
\* ------------------------------------------------------------------------

\* Most events an API response holds.
MaxEvents == 3

\* The characters of the strings compared here, by code point.
Alphabet == "\n+-.0123456789:ABCDEFGTZabcdefghijklmnopqrstuvwxyz"

CharAt(s, k) == SubSeq(s, k, k)

Ord(c) == CHOOSE k \in 1..Len(Alphabet) : CharAt(Alphabet, k) = c

\* a < b on Python strings: by code point, a proper prefix first.
RECURSIVE StrLessFrom(_, _, _)
StrLessFrom(a, b, k) ==
    IF k > Len(b) THEN FALSE
    ELSE IF k > Len(a) THEN TRUE
    ELSE IF CharAt(a, k) = CharAt(b, k) THEN StrLessFrom(a, b, k + 1)
    ELSE Ord(CharAt(a, k)) < Ord(CharAt(b, k))

StrLess(a, b) == StrLessFrom(a, b, 1)

HexDigits == {CharAt("0123456789abcdefABCDEF", k) : k \in 1..22}

\* TRACE_ID_PATTERN.match(trace_id): 32 hex digits from the start; `$` matches
\* at the end and also before a newline that ends the string.
TraceIdMatches(trace_id) ==
    /\ Len(trace_id) \in {32, 33}
    /\ \A k \in 1..32 : CharAt(trace_id, k) \in HexDigits
    /\ Len(trace_id) = 33 => CharAt(trace_id, 33) = "\n"

\* The sort key of an event (line 129).
TimestampKey(e) == Get(e, "timestamp", "")

\* list.sort(key=...): stable, ascending; e goes behind every element that
\* is not greater.
RECURSIVE InsertByKey(_, _)
InsertByKey(sorted, e) ==
    IF sorted = <<>> THEN <<e>>
    ELSE IF StrLess(TimestampKey(e), TimestampKey(Head(sorted)))
    THEN <<e>> \o sorted
    ELSE <<Head(sorted)>> \o InsertByKey(Tail(sorted), e)

RECURSIVE SortFrom(_, _, _)
SortFrom(sorted, s, k) ==
    IF k > Len(s) THEN sorted ELSE SortFrom(InsertByKey(sorted, s[k]), s, k + 1)

SortByTimestamp(s) == SortFrom(<<>>, s, 1)

\* Lines 129-130: the events that are shown.
ShownEventsCutFirst(fetched, max_rows) == SortByTimestamp(Prefix(fetched, max_rows))
ShownEvents(fetched, max_rows) == Prefix(SortByTimestamp(fetched), max_rows)

\* The trace ids given on the command line.
Hex32 == "abc123def456789012345678901234ab"

TraceIds ==
    {Hex32, "ABCDEF0123456789abcdef0123456789", "invalid", "ZZZZ", "",
     SubSeq(Hex32, 1, 31), Hex32 \o "0", SubSeq(Hex32, 1, 31) \o "g",
     Hex32 \o "\n"}

MaxRows == {-1, 0, 1, 2, 25}

Formats == {"table", "json"}

\* The timestamp key of a fetched event: missing, or an ISO-8601 string.
Timestamps == {"2024-01-15T10:30:01", "2024-01-15T10:30:00", "2024-01-15T10:30"}

TimestampKeys == {EmptyDict} \cup {("timestamp" :> t) : t \in Timestamps}

\* The "data" of a response: the k-th event has the keys keys[k] and its title.
EventList(keys) == [k \in DOMAIN keys |-> keys[k] @@ ("title" :> ("event " \o ToString(k)))]

InitTrace ==
    /\ \E t \in TraceIds : \E n \in MaxRows : \E f \in Formats :
          args = [trace_id |-> t, max_rows |-> n, format |-> f, fetched |-> <<>>]
    /\ pc = "trace"
    /\ events = <<>>
    /\ out = <<>>
    /\ exit_code = None
    /\ earlier = None
    /\ IdleProcess
    /\ spans = <<>>
    /\ idx = 1
    /\ root_span_id = None
    /\ heap = EmptyDict
    /\ node_map = EmptyDict
    /\ order = <<>>
    /\ warnings = <<>>

untraced == <<spans, idx, earlier, process, building>>

\* Lines 109-111: the trace id is refused.
TraceReject ==
    /\ pc = "trace"
    /\ ~TraceIdMatches(args.trace_id)
    /\ out' = Append(out, [line |-> "log.error", event |-> "Invalid trace ID format"])
    /\ exit_code' = 2
    /\ pc' = "exit"
    /\ UNCHANGED <<args, events, untraced>>

\* Lines 109, 113: the trace id is accepted and get_config is called; a
\* ConfigurationError ends the command with typer.Exit(1) (utils.py).
TraceConfig ==
    /\ pc = "trace"
    /\ TraceIdMatches(args.trace_id)
    /\ \E resolved \in BOOLEAN :
          /\ out' = Append(out, [line |-> "call", fn |-> "get_config"])
          /\ pc' = IF resolved THEN "api" ELSE "exit"
          /\ exit_code' = IF resolved THEN exit_code ELSE 1
    /\ UNCHANGED <<args, events, untraced>>

\* Lines 115-123: the API request; NotFoundError ends the command with
\* typer.Exit(1) (utils.py), a response gives events = response.get("data", []).
TraceFetch ==
    /\ pc = "api"
    /\ \E found \in BOOLEAN :
          IF found
          THEN \E n \in 0..MaxEvents : \E keys \in [1..n -> TimestampKeys] :
                  /\ events' = EventList(keys)
                  /\ args' = [args EXCEPT !.fetched = EventList(keys)]
                  /\ out' = Append(out, [line |-> "call", fn |-> "api"])
                  /\ pc' = "show"
                  /\ UNCHANGED exit_code
          ELSE /\ out' = out \o <<[line |-> "call", fn |-> "api"],
                                  [line |-> "log.error", event |-> "not found"]>>
               /\ exit_code' = 1
               /\ pc' = "exit"
               /\ UNCHANGED <<args, events>>
    /\ UNCHANGED untraced

\* Lines 125-127: no events.
TraceEmpty ==
    /\ pc = "show"
    /\ events = <<>>
    /\ out' = Append(out, [line |-> "log.info", event |-> "No events found for trace"])
    /\ exit_code' = 0
    /\ pc' = "exit"
    /\ UNCHANGED <<args, events, untraced>>

\* Lines 129-157: sort, truncate, render.
TraceShow ==
    /\ pc = "show"
    /\ events # <<>>
    /\ events' = ShownEvents(events, args.max_rows)
    /\ out' = out \o RenderList(events', args.format, Len(events'))
    /\ exit_code' = 0
    /\ pc' = "exit"
    /\ UNCHANGED <<args, untraced>>

NextTrace == TraceReject \/ TraceConfig \/ TraceFetch \/ TraceEmpty \/ TraceShow

SpecTrace == InitTrace /\ [][NextTrace]_vars

\* a <= b on timestamps.
NotLater(a, b) == ~StrLess(TimestampKey(b), TimestampKey(a))

\* C16: for max_rows >= 0 the events shown are min(max_rows, fetched) of the
\* fetched events, in ascending timestamp order, and no event left out is
\* earlier than one that is shown.
C16_EarliestInOrder ==
    (pc = "exit" /\ exit_code = 0 /\ args.fetched # <<>> /\ args.max_rows >= 0) =>
        /\ Len(events) = (IF args.max_rows < Len(args.fetched)
                          THEN args.max_rows ELSE Len(args.fetched))
        /\ \A m, n \in DOMAIN events : m < n => NotLater(events[m], events[n])
        /\ \E p \in [DOMAIN events -> DOMAIN args.fetched] :
              /\ \A m, n \in DOMAIN events : m # n => p[m] # p[n]
              /\ \A m \in DOMAIN events : events[m] = args.fetched[p[m]]
              /\ \A k \in DOMAIN args.fetched \ Range(p) :
                    \A m \in DOMAIN events : NotLater(events[m], args.fetched[k])
        /\ args.format = "json" => out[Len(out)] = [line |-> "json", data |-> events]
        /\ (args.format = "table" /\ events # <<>>) =>
              out[Len(out)] = [line |-> "table", rows |-> events, footer |-> Len(events)]

\* The API returned three events latest first, and the two earliest are shown.
C16_Witness ==
    /\ pc = "exit"
    /\ exit_code = 0
    /\ args.max_rows = 2
    /\ Len(args.fetched) = 3
    /\ StrLess(TimestampKey(args.fetched[3]), TimestampKey(args.fetched[2]))
    /\ StrLess(TimestampKey(args.fetched[2]), TimestampKey(args.fetched[1]))
    /\ events = <<args.fetched[3], args.fetched[2]>>

\* C19: a trace id that is not 32 hexadecimal characters ends the command with
\* exit code 1, before get_config and before any API request.
C19_InvalidIdExitsOne ==
    LET trace_id == args.trace_id
        hex32 == Len(trace_id) = 32 /\ \A k \in 1..32 : CharAt(trace_id, k) \in HexDigits
    IN  (pc # "trace" /\ ~hex32) =>
            /\ pc = "exit"
            /\ exit_code = 1
            /\ \A m \in DOMAIN out : out[m].line # "call"

\* ------------------------------------------------------------------------
\* api_call (client.py) and api (utils.py)
\* ------------------------------------------------------------------------

HTTP_NOT_FOUND == 404

\* stop=stop_after_attempt(3)
stop_after_attempt == 3

\* What one requests.get comes to: a response with a status code, or an
\* exception of requests and no response.
Statuses == {200, 403, 404, 500}

Response(status) == [status_code |-> status]

ConnectionError == [exception |-> "ConnectionError"]

Outcomes == {Response(c) : c \in Statuses} \cup {ConnectionError}

\* response.raise_for_status() raises HTTPError for a 4xx or 5xx status.
RaisesForStatus(status) == status >= 400 /\ status < 600

\* What one run of the body of api_call ends with (lines 27-33).
Attempt(outcome) ==
    IF "exception" \in DOMAIN outcome THEN [raised |-> "RequestException"]
    ELSE IF outcome.status_code = HTTP_NOT_FOUND THEN [raised |-> "NotFoundError"]
    ELSE IF RaisesForStatus(outcome.status_code) THEN [raised |-> "RequestException"]
    ELSE [returned |-> [json_of |-> outcome]]

\* retry=retry_if_exception_type(requests.exceptions.RequestException)
RetriedWhateverRaised(result) == "raised" \in DOMAIN result
Retried(result) == "raised" \in DOMAIN result /\ result.raised = "RequestException"

Endpoints == {"/organizations/o/events/p:e1/", "/organizations/o/events/p:e2/"}

BaseUrls == {"https://sentry.io", "https://sentry.example"}

InitApi ==
    /\ \E e \in Endpoints : \E u \in BaseUrls :
          args = [endpoint |-> e, base_url |-> u, result |-> None]
    /\ pc = "attempt"
    /\ idx = 1
    /\ events = <<>>
    /\ out = <<>>
    /\ exit_code = None
    /\ earlier = None
    /\ IdleProcess
    /\ spans = <<>>
    /\ root_span_id = None
    /\ heap = EmptyDict
    /\ node_map = EmptyDict
    /\ order = <<>>
    /\ warnings = <<>>

\* One attempt: the request, then what the retry decorator does with its end:
\* another attempt, RetryError after the last one, or the end handed on.
ApiAttempt ==
    /\ pc = "attempt"
    /\ \E outcome \in Outcomes :
          LET result == Attempt(outcome)
              request == [line |-> "requests.get",
                          url |-> args.base_url \o "/api/0" \o args.endpoint,
                          outcome |-> outcome]
          IN  /\ out' = Append(out, request)
              /\ IF Retried(result)
                 THEN IF idx >= stop_after_attempt
                      THEN /\ args' = [args EXCEPT !.result = [raised |-> "RetryError"]]
                           /\ pc' = "api"
                           /\ UNCHANGED idx
                      ELSE /\ idx' = idx + 1
                           /\ UNCHANGED <<args, pc>>
                 ELSE /\ args' = [args EXCEPT !.result = result]
                      /\ pc' = "api"
                      /\ UNCHANGED idx
    /\ UNCHANGED <<events, exit_code, spans, earlier, process, building>>

\* api: the value of api_call is returned.
ApiReturn ==
    /\ pc = "api"
    /\ "returned" \in DOMAIN args.result
    /\ events' = <<args.result.returned>>
    /\ pc' = "returned"
    /\ UNCHANGED <<args, idx, out, exit_code, spans, earlier, process, building>>

\* api: NotFoundError is logged and becomes typer.Exit(1).
ApiNotFound ==
    /\ pc = "api"
    /\ "raised" \in DOMAIN args.result
    /\ args.result.raised = "NotFoundError"
    /\ out' = Append(out, [line |-> "log.error", event |-> "not found"])
    /\ exit_code' = 1
    /\ pc' = "exit"
    /\ UNCHANGED <<args, idx, events, spans, earlier, process, building>>

\* api: any other exception leaves api as it is.
ApiRaise ==
    /\ pc = "api"
    /\ "raised" \in DOMAIN args.result
    /\ args.result.raised # "NotFoundError"
    /\ pc' = "raised"
    /\ UNCHANGED <<args, idx, events, out, exit_code, spans, earlier, process, building>>

NextApi == ApiAttempt \/ ApiReturn \/ ApiNotFound \/ ApiRaise

SpecApi == InitApi /\ [][NextApi]_vars

\* The outcomes of the HTTP attempts made so far, in order.
Attempts == [m \in {k \in DOMAIN out : out[k].line = "requests.get"} |-> out[m].outcome]

Failure(outcome) == outcome \in {Response(403), Response(500), ConnectionError}

\* C20: at most 3 attempts; only a connection error or a non-404 error status
\* is followed by another attempt, and is unless it was the third; a 404 ends
\* the call with NotFoundError and a success with the response's JSON.
C20_AtMostThreeAttempts ==
    LET n == Cardinality(DOMAIN Attempts)
    IN  /\ n <= 3
        /\ DOMAIN Attempts = 1..n
        /\ \A m \in 1..(n - 1) : Failure(Attempts[m])
        /\ pc = "attempt" => (idx = n + 1 /\ idx <= 3)
        /\ pc # "attempt" =>
              /\ n >= 1
              /\ Attempts[n] = Response(200) =>
                    args.result = [returned |-> [json_of |-> Response(200)]]
              /\ Attempts[n] = Response(404) => args.result = [raised |-> "NotFoundError"]
              /\ Failure(Attempts[n]) => (n = 3 /\ args.result = [raised |-> "RetryError"])

\* Two failed attempts were retried and the third succeeded.
C20_Witness ==
    /\ pc = "returned"
    /\ Attempts = <<ConnectionError, Response(500), Response(200)>>

\* ------------------------------------------------------------------------
\* show_spans and show_transaction
\* ------------------------------------------------------------------------

\* str.strip(): whitespace is dropped at both ends.
Whitespace == {" ", "\t", "\n"}

RECURSIVE Strip(_)
Strip(s) ==
    IF s = "" THEN s
    ELSE IF CharAt(s, 1) \in Whitespace THEN Strip(SubSeq(s, 2, Len(s)))
    ELSE IF CharAt(s, Len(s)) \in Whitespace THEN Strip(SubSeq(s, 1, Len(s) - 1))
    ELSE s

\* str.split(","): the pieces between the commas, empty ones included; the
\* piece that starts at position from ends before position k.
RECURSIVE SplitFrom(_, _, _)
SplitFrom(s, from, k) ==
    IF k > Len(s) THEN <<SubSeq(s, from, Len(s))>>
    ELSE IF CharAt(s, k) = ","
    THEN <<SubSeq(s, from, k - 1)>> \o SplitFrom(s, k + 1, k + 1)
    ELSE SplitFrom(s, from, k + 1)

Split(s) == SplitFrom(s, 1, 1)

\* Line 411: op_filters = {o.strip() for o in op.split(",")}
OpFiltersUntrimmed(op) == Range(Split(op))
OpFilters(op) == {Strip(o) : o \in Range(Split(op))}

\* [s for s in spanList if keep(s)], from position k on.
RECURSIVE FilterFrom(_, _, _)
FilterFrom(spanList, filters, k) ==
    IF k > Len(spanList) THEN <<>>
    ELSE (IF Get(spanList[k], "op", None) \in filters THEN <<spanList[k]>> ELSE <<>>)
         \o FilterFrom(spanList, filters, k + 1)

\* Lines 410-412: the spans left by --op; no filter for None and "".
FilterByOp(spanList, op) ==
    IF Truthy(op) THEN FilterFrom(spanList, OpFilters(op), 1) ELSE spanList

\* for entry in entries: the data of the first entry of type "spans".
RECURSIVE SpansEntryData(_, _)
SpansEntryData(entries, k) ==
    IF k > Len(entries) THEN <<>>
    ELSE IF Get(entries[k], "type", None) = "spans" THEN Get(entries[k], "data", <<>>)
    ELSE SpansEntryData(entries, k + 1)

\* _extract_spans; the duration stays in milliseconds, and raw_duration is
\* None when the trace context has no duration.
ExtractSpans(event) ==
    LET trace_ctx == Get(Get(event, "contexts", EmptyDict), "trace", EmptyDict)
    IN  [spans |-> SpansEntryData(Get(event, "entries", <<>>), 1),
         root_span_id |-> Get(trace_ctx, "span_id", None),
         txn_duration |-> IF "duration" \in DOMAIN trace_ctx
                          THEN trace_ctx.duration ELSE 0]

\* Lines 406 and 413 of show_spans: `if not spans`.
NoSpansNever(spanList) == FALSE
NoSpans(spanList) == spanList = <<>>

\* Line 422: the total_spans argument of _render_span_tree.
TotalSpansTreeNodes(spanList, b) == Cardinality(Range(b.node_map) \ {RootRef})
TotalSpans(spanList, b) == Len(spanList)

\* Lines 353-360: the rows of the span table of show_transaction.
SpanRows(spanList) ==
    [k \in DOMAIN spanList |->
        [operation |-> Get(spanList[k], "op", ""),
         description |-> Prefix(Get(spanList[k], "description", ""), 50),
         duration |-> Get(spanList[k], "timestamp", 0)
                      - Get(spanList[k], "start_timestamp", 0)]]

\* The values of --op.
Ops == {None, "", "db", "http, db", " cache ,", "http"}

\* The span_id, parent_span_id and op keys of a fetched span; the other keys
\* are those of Payload.
CliSpanKeys ==
    {("span_id" :> "a") @@ ("op" :> "db"),
     ("span_id" :> "a") @@ ("op" :> "http"),
     ("span_id" :> "b") @@ ("parent_span_id" :> "a") @@ ("op" :> "db"),
     ("op" :> "db"),
     ("span_id" :> "b") @@ ("parent_span_id" :> "x")}

\* The entries of a fetched event.
RequestEntry == ("type" :> "request") @@ ("data" :> EmptyDict)

EntriesKeys ==
    {EmptyDict, ("entries" :> <<>>), ("entries" :> <<RequestEntry>>),
     ("entries" :> <<RequestEntry, ("type" :> "spans")>>)}
    \cup {("entries" :> <<RequestEntry, ("type" :> "spans") @@ ("data" :> SpanList(keys))>>) :
            keys \in UNION {[1..n -> CliSpanKeys] : n \in 0..MaxSpans}}

\* The contexts of a fetched event.
ContextsKeys ==
    {EmptyDict, ("contexts" :> ("trace" :> EmptyDict)),
     ("contexts" :> ("trace" :> (("span_id" :> "r") @@ ("duration" :> 500))))}

InitCli ==
    /\ \/ \E f \in Formats : \E o \in Ops :
             args = [cmd |-> "spans", format |-> f, op |-> o, timeline |-> FALSE]
       \/ \E f \in Formats : \E t \in BOOLEAN :
             args = [cmd |-> "transaction", format |-> f, op |-> None, timeline |-> t]
    /\ pc = "cli"
    /\ events = <<>>
    /\ out = <<>>
    /\ exit_code = None
    /\ earlier = None
    /\ IdleProcess
    /\ spans = <<>>
    /\ idx = 1
    /\ root_span_id = None
    /\ heap = EmptyDict
    /\ node_map = EmptyDict
    /\ order = <<>>
    /\ warnings = <<>>

\* get_config() and api(...) of either command: the event, or typer.Exit(1)
\* for a ConfigurationError or a NotFoundError (utils.py).
CliFetch ==
    /\ pc = "cli"
    /\ \/ \E e \in EntriesKeys : \E c \in ContextsKeys :
             /\ events' = <<e @@ c>>
             /\ pc' = "fetched"
             /\ UNCHANGED <<out, exit_code>>
       \/ \E error \in {"configuration error", "not found"} :
             /\ out' = Append(out, [line |-> "error", event |-> error])
             /\ exit_code' = 1
             /\ pc' = "exit"
             /\ UNCHANGED events
    /\ UNCHANGED <<args, spans, idx, earlier, process, building>>

\* Lines 404-408: show_spans finds no spans in the event.
ShowSpansNoData ==
    /\ pc = "fetched"
    /\ args.cmd = "spans"
    /\ NoSpans(ExtractSpans(events[1]).spans)
    /\ out' = Append(out, [line |-> "log.info", event |-> "No span data found"])
    /\ exit_code' = 0
    /\ pc' = "exit"
    /\ UNCHANGED <<args, events, spans, idx, earlier, process, building>>

\* Lines 404-415: the op filter leaves no span.
ShowSpansNoMatch ==
    /\ pc = "fetched"
    /\ args.cmd = "spans"
    /\ ~NoSpans(ExtractSpans(events[1]).spans)
    /\ Truthy(args.op)
    /\ NoSpans(FilterByOp(ExtractSpans(events[1]).spans, args.op))
    /\ spans' = <<>>
    /\ out' = Append(out, [line |-> "log.info", event |-> "No spans matching op filter"])
    /\ exit_code' = 0
    /\ pc' = "exit"
    /\ UNCHANGED <<args, events, idx, earlier, process, building>>

\* Lines 404-419: the spans left are printed as JSON.
ShowSpansJson ==
    /\ pc = "fetched"
    /\ args.cmd = "spans"
    /\ args.format = "json"
    /\ ~NoSpans(ExtractSpans(events[1]).spans)
    /\ spans' = FilterByOp(ExtractSpans(events[1]).spans, args.op)
    /\ Truthy(args.op) => ~NoSpans(spans')
    /\ out' = out \o RenderList(spans', "json", None)
    /\ exit_code' = 0
    /\ pc' = "exit"
    /\ UNCHANGED <<args, events, idx, earlier, process, building>>

\* Lines 404-422: the tree of the spans left is built and rendered.
ShowSpansTree ==
    /\ pc = "fetched"
    /\ args.cmd = "spans"
    /\ args.format # "json"
    /\ ~NoSpans(ExtractSpans(events[1]).spans)
    /\ spans' = FilterByOp(ExtractSpans(events[1]).spans, args.op)
    /\ Truthy(args.op) => ~NoSpans(spans')
    /\ root_span_id' = ExtractSpans(events[1]).root_span_id
    /\ LET b == BuildSpanTree(spans', root_span_id')
       IN  /\ SetLocals(b)
           /\ out' = out \o RenderSpanTree(b.heap, RootRef, TotalSpans(spans', b),
                                           ExtractSpans(events[1]).txn_duration)
    /\ exit_code' = 0
    /\ pc' = "exit"
    /\ UNCHANGED <<args, events, idx, earlier, process>>

\* Lines 303-305: show_transaction prints the event as JSON.
ShowTransactionJson ==
    /\ pc = "fetched"
    /\ args.cmd = "transaction"
    /\ args.format = "json"
    /\ out' = out \o RenderList(events, "json", None)
    /\ exit_code' = 0
    /\ pc' = "exit"
    /\ UNCHANGED <<args, events, spans, idx, earlier, process, building>>

\* Lines 307-374: the detail table, then the spans of the event as a
\* timeline or a table, or the line saying that there are none.
ShowTransactionTable ==
    /\ pc = "fetched"
    /\ args.cmd = "transaction"
    /\ args.format # "json"
    /\ spans' = SpansEntryData(Get(events[1], "entries", <<>>), 1)
    /\ out' = out \o <<[line |-> "transaction detail"]>>
              \o (IF spans' # <<>>
                  THEN IF args.timeline
                       THEN RenderTimeline(spans')
                       ELSE RenderList(SpanRows(spans'), "table", Len(spans'))
                  ELSE <<[line |-> "print", event |-> "No span data found"]>>)
    /\ exit_code' = 0
    /\ pc' = "exit"
    /\ UNCHANGED <<args, events, idx, earlier, process, building>>

NextCli ==
    \/ CliFetch
    \/ ShowSpansNoData
    \/ ShowSpansNoMatch
    \/ ShowSpansJson
    \/ ShowSpansTree
    \/ ShowTransactionJson
    \/ ShowTransactionTable

SpecCli == InitCli /\ [][NextCli]_vars

\* The spans of the fetched event, and those the op filter of show_spans keeps.
FetchedSpans ==
    LET entries == Get(events[1], "entries", <<>>)
        at == {k \in DOMAIN entries : Get(entries[k], "type", None) = "spans"}
    IN  IF at = {} THEN <<>> ELSE Get(entries[First(at)], "data", <<>>)

KeptByOp(span) ==
    \/ args.op \in {None, ""}
    \/ args.op = "db" /\ Get(span, "op", None) = "db"
    \/ args.op = "http" /\ Get(span, "op", None) = "http"
    \/ args.op = "http, db" /\ Get(span, "op", None) \in {"http", "db"}
    \/ args.op = " cache ," /\ Get(span, "op", None) \in {"cache", ""}

KeptSpans == {k \in DOMAIN FetchedSpans : KeptByOp(FetchedSpans[k])}

TreeRendered == pc = "exit" /\ out # <<>> /\ out[Len(out)].line = "summary"

\* C13: the summary line of show_spans carries the number of fetched spans
\* the op filter keeps, whatever number of them became tree nodes.
C13_SummaryCountsInputSpans ==
    (args.cmd = "spans" /\ TreeRendered) =>
        out[Len(out)].total_spans = Cardinality(KeptSpans)

\* A filter dropped a span, and of the spans kept one repeats an id and one
\* has none: the summary counts more spans than the tree has nodes.
C13_Witness ==
    /\ args.cmd = "spans"
    /\ TreeRendered
    /\ Truthy(args.op)
    /\ Cardinality(KeptSpans) < Len(FetchedSpans)
    /\ \E k, m \in KeptSpans : k # m /\ InputId(FetchedSpans, k) = "a"
                                /\ InputId(FetchedSpans, m) = "a"
    /\ out[Len(out)].total_spans = 2
    /\ Len(out) = 3

\* What the tree builder and the two renderers leave behind.
RendererLines ==
    {"root", "node", "summary", "row", "total duration", "cannot render timeline"}

NothingBuiltOrRendered ==
    /\ heap = EmptyDict
    /\ \A m \in DOMAIN out : out[m].line \notin RendererLines

NoSpanDataReported ==
    \E m \in DOMAIN out :
        /\ out[m].line \in {"log.info", "print"}
        /\ out[m].event \in {"No span data found", "No spans matching op filter"}

NoSpansLeft ==
    /\ pc = "exit"
    /\ events # <<>>
    /\ \/ FetchedSpans = <<>>
       \/ args.cmd = "spans" /\ KeptSpans = {}

\* C18 as claimed: with no spans in the event, or none left by the op filter,
\* both commands report that there is no span data, end with exit code 0 and
\* call neither the tree builder nor a renderer.
C18_NoSpansReported ==
    NoSpansLeft =>
        /\ exit_code = 0
        /\ NothingBuiltOrRendered
        /\ NoSpanDataReported

\* C18 as the code has it: show_transaction with --format json prints the
\* event and ends before it looks at the spans, so it reports nothing about
\* them; every other run reports that there is no span data.
C18_NoSpansReportedUnlessJsonEvent ==
    NoSpansLeft =>
        /\ exit_code = 0
        /\ NothingBuiltOrRendered
        /\ IF args.cmd = "transaction" /\ args.format = "json"
           THEN ~NoSpanDataReported /\ out = <<[line |-> "json", data |-> events]>>
           ELSE NoSpanDataReported

\* show_transaction --timeline on an event without spans, and show_spans
\* whose filter matches no span.
C18_Witness ==
    /\ NoSpansLeft
    /\ \/ args.cmd = "transaction" /\ args.timeline /\ args.format = "table"
          /\ "entries" \in DOMAIN events[1]
       \/ args.cmd = "spans" /\ FetchedSpans # <<>> /\ args.op = "http"

\* ------------------------------------------------------------------------
\* Two calls of _build_span_tree
\* ------------------------------------------------------------------------

\* The objects of a call that has returned stay on the heap for as long as
\* the caller holds the root.  Their references are renamed by Kept, which
\* leaves the references 0..MaxSpans to the objects of the next call.
Kept(ref) == ref + MaxSpans + 1

KeptLocals(b) ==
    [b EXCEPT
        !.heap = [ref \in {Kept(o) : o \in DOMAIN b.heap} |->
                    LET o == CHOOSE o \in DOMAIN b.heap : Kept(o) = ref
                    IN  [b.heap[o] EXCEPT
                            !.children = [m \in DOMAIN @ |-> Kept(@[m])]]],
        !.node_map = [id \in DOMAIN b.node_map |-> Kept(b.node_map[id])]]

\* Lines 172-181 in a later call: root and node_map are new objects, whatever
\* the earlier call left on the heap.
LocalsAtCallSameMap(kept, rsid) ==
    [EmptyBuild(rsid) EXCEPT !.heap = @ @@ kept.heap,
                             !.node_map = kept.node_map,
                             !.order = kept.order]
LocalsAtCall(kept, rsid) == [EmptyBuild(rsid) EXCEPT !.heap = @ @@ kept.heap]

\* The span_id and parent_span_id keys of the spans built twice.
TwiceIdKeys ==
    {("span_id" :> "a"), ("span_id" :> "b"), ("span_id" :> "r"),
     ("span_id" :> "a") @@ ("parent_span_id" :> "b"),
     ("span_id" :> "a") @@ ("parent_span_id" :> "x"),
     ("span_id" :> "b") @@ ("parent_span_id" :> "a"),
     ("span_id" :> "b") @@ ("parent_span_id" :> "r"),
     ("span_id" :> "") @@ ("parent_span_id" :> "a")}

\* earlier: nothing yet, or what the caller saw when the first call returned.
InitTwice ==
    /\ \E n \in 0..MaxSpans : \E keys \in [1..n -> TwiceIdKeys] : spans = SpanList(keys)
    /\ root_span_id \in RootSpanIds
    /\ pc = "call"
    /\ idx = 1
    /\ heap = EmptyDict
    /\ node_map = EmptyDict
    /\ order = <<>>
    /\ warnings = <<>>
    /\ args = None
    /\ events = <<>>
    /\ out = <<>>
    /\ exit_code = None
    /\ earlier = <<>>
    /\ IdleProcess

\* The caller keeps the tree of the first call and calls again with the same
\* arguments (lines 172-181 of the second call).
CallAgain ==
    /\ pc = "done"
    /\ earlier = <<>>
    /\ IdleProcess
    /\ earlier' = <<[spans |-> spans, view |-> View(Locals), warnings |-> warnings,
                     heap |-> KeptLocals(Locals).heap]>>
    /\ SetLocals(LocalsAtCall(KeptLocals(Locals), root_span_id))
    /\ pc' = "register"
    /\ idx' = 1
    /\ UNCHANGED <<spans, root_span_id, args, events, out, exit_code, process>>

NextTwice == Call \/ Register \/ RegisterRoot \/ Link \/ Return \/ CallAgain

SpecTwice == InitTwice /\ [][NextTwice]_vars

\* C17: while and after the second call runs, every object of the first tree
\* is as it was when the first call returned, children lists included; the
\* input is as it was given; and the second call returns a tree equal to the
\* first, node by node, with the same warnings.
C17_CallsIndependent ==
    earlier # <<>> =>
        /\ \A ref \in DOMAIN earlier[1].heap :
              ref \in DOMAIN heap /\ heap[ref] = earlier[1].heap[ref]
        /\ spans = earlier[1].spans
        /\ Done => (View(Locals) = earlier[1].view /\ warnings = earlier[1].warnings)

\* The second call has returned a tree with a nested child, after a warning.
C17_Witness ==
    /\ Done
    /\ earlier # <<>>
    /\ warnings # <<>>
    /\ \E o \in Range(node_map) \ {RootRef} : heap[o].children # <<>>
    /\ heap[RootRef].children # <<>>

\* ------------------------------------------------------------------------
\* The shape of the returned structure
\* ------------------------------------------------------------------------

\* The references reachable from the children of o.
Below(b, o) == ReachFrom(b, Range(b.heap[o].children), {})

\* How many times ref occurs in the children lists of reachable objects.
ReachedTimes(b, ref) ==
    Cardinality(UNION {{<<o, m>> : m \in {n \in DOMAIN b.heap[o].children :
                                            b.heap[o].children[n] = ref}} :
                       o \in Reachable(b)})

\* C25: what is reachable from the returned root is a tree: the root is in no
\* reachable children list, every other reachable node is in exactly one, once,
\* and no reachable node is below itself.
C25_ReachableIsTree ==
    Done =>
        /\ ReachedTimes(Locals, RootRef) = 0
        /\ \A o \in Reachable(Locals) \ {RootRef} : ReachedTimes(Locals, o) = 1
        /\ \A o \in Reachable(Locals) : o \notin Below(Locals, o)

\* A self-parented span next to a span under the root that has a child.
C25_Witness ==
    /\ Done
    /\ \E o \in Registered(Locals) :
          /\ o \in Range(heap[o].children)
          /\ o \notin Reachable(Locals)
    /\ \E o \in Range(heap[RootRef].children) : heap[o].children # <<>>

\* ------------------------------------------------------------------------
\* The rendered lines
\* ------------------------------------------------------------------------

\* The way from the root to a reachable node: the positions taken in the
\* children lists.
RECURSIVE PathOf(_, _)
PathOf(b, o) ==
    IF o = RootRef THEN <<>>
    ELSE LET p == CHOOSE p \in Reachable(b) : o \in Range(b.heap[p].children)
             m == CHOOSE m \in DOMAIN b.heap[p].children : b.heap[p].children[m] = o
         IN  Append(PathOf(b, p), m)

\* p comes before q in pre-order: p is a proper prefix of q, or p takes the
\* earlier child where they part.
PathBefore(p, q) ==
    \/ Len(p) < Len(q) /\ \A i \in DOMAIN p : p[i] = q[i]
    \/ \E i \in DOMAIN p \cap DOMAIN q :
          /\ p[i] < q[i]
          /\ \A j \in 1..(i - 1) : p[j] = q[j]

\* The number of reachable nodes that come before o in pre-order.
Rank(b, o) ==
    Cardinality({n \in Reachable(b) : PathBefore(PathOf(b, n), PathOf(b, o))})

\* C26: the lines are the root's label, then one label per node reachable from
\* the root, a node's label standing at its pre-order rank with the node's op,
\* description (cut to 47 characters and "..." when longer than 50) and
\* duration at the node's depth, then one summary line.
C26_OneLabelPerNodePreOrder ==
    pc = "rendered" =>
        LET nodes == Reachable(Locals)
        IN  /\ Len(out) = Cardinality(nodes) + 1
            /\ out[1].line = "root"
            /\ \A o \in nodes \ {RootRef} :
                  LET label == out[Rank(Locals, o) + 1]
                      desc == heap[o].description
                  IN  /\ label.line = "node"
                      /\ label.op = heap[o].op
                      /\ label.duration = heap[o].duration
                      /\ label.depth = Len(PathOf(Locals, o))
                      /\ label.description =
                            (IF Len(desc) > 50 THEN SubSeq(desc, 1, 47) \o "..." ELSE desc)
            /\ \A m \in DOMAIN out : out[m].line = "summary" <=> m = Len(out)

\* The root has a child with a child of its own, and a later child; one
\* description is cut.
C26_Witness ==
    /\ pc = "rendered"
    /\ Len(heap[RootRef].children) = 2
    /\ heap[heap[RootRef].children[1]].children # <<>>
    /\ Len(out) = 5
    /\ out[3].depth = 2
    /\ out[4].depth = 1
    /\ \E m \in 2..4 : Len(out[m].description) = 50 /\ SubSeq(out[m].description, 48, 50) = "..."

\* ------------------------------------------------------------------------
\* The op filter and the tree
\* ------------------------------------------------------------------------

\* The fetched spans the op filter keeps, in their order.
RECURSIVE KeptFrom(_)
KeptFrom(k) ==
    IF k > Len(FetchedSpans) THEN <<>>
    ELSE (IF k \in KeptSpans THEN <<FetchedSpans[k]>> ELSE <<>>) \o KeptFrom(k + 1)

\* C27: with an op filter, the span list given to _build_span_tree is the
\* fetched spans whose op is one of the trimmed names, in their order; in the
\* tree a node whose parent id is the id of no kept span (nor the root's) is
\* a child of the root, and a node whose parent was kept is a child of it.
C27_FilterBeforeTree ==
    (args.cmd = "spans" /\ TreeRendered /\ Truthy(args.op)) =>
        /\ spans = KeptFrom(1)
        /\ \A o \in Registered(Locals) :
              LET parent_id == heap[o].parent_span_id
                  kept == \E k \in KeptSpans : InputId(FetchedSpans, k) = parent_id
              IN  IF Truthy(parent_id) /\ (kept \/ parent_id = RootId)
                  THEN o \in Range(heap[node_map[parent_id]].children)
                  ELSE o \in Range(heap[RootRef].children)

\* The filter "http, db" keeps a span and its parent; the filter "db" drops
\* the parent of a span it keeps, which is then a child of the root.
C27_Witness ==
    /\ args.cmd = "spans"
    /\ TreeRendered
    /\ \/ /\ args.op = "db"
          /\ \E k \in DOMAIN FetchedSpans :
                /\ k \notin KeptSpans
                /\ InputId(FetchedSpans, k) = "a"
          /\ \E o \in Range(heap[RootRef].children) :
                heap[o].span_id = "b" /\ heap[o].parent_span_id = "a"
          /\ "a" \notin DOMAIN node_map
       \/ /\ args.op = "http, db"
          /\ Len(spans) = 3
          /\ \E o \in Registered(Locals) :
                /\ heap[o].op = "http"
                /\ \E c \in Range(heap[o].children) : heap[c].op = "db"

\* ------------------------------------------------------------------------
\* The bars and the axis
\* ------------------------------------------------------------------------

\* The latest end of all spans.
LatestEnd == Max([k \in DOMAIN spans |-> Get(spans[k], "timestamp", 0)])

\* C28: with a positive total duration no bar starts left of the axis; the bar
\* of a span that does not end before it starts begins within the 40 units and
\* ends at most one unit beyond them; a bar begins beyond the axis only for a
\* span that starts after the latest end.
C28_BarsWithinAxis ==
    (pc = "returned" /\ TotalDuration > 0) =>
        /\ Len(out) = Len(spans) + 1
        /\ \A k \in DOMAIN spans :
              LET start == Get(spans[k], "start_timestamp", 0)
                  end == Get(spans[k], "timestamp", 0)
              IN  /\ out[k].pos >= 0
                  /\ start <= end => (out[k].pos <= 40 /\ out[k].pos + out[k].length <= 41)
                  /\ out[k].pos > 40 => start > LatestEnd

\* A span of no duration at the latest end takes the unit past the axis, and
\* a span that starts after the latest end is placed beyond it.
C28_Witness ==
    /\ pc = "returned"
    /\ TotalDuration > 0
    /\ \E k, m \in DOMAIN spans :
          /\ Get(spans[k], "start_timestamp", 0) = LatestEnd
          /\ Get(spans[k], "timestamp", 0) = LatestEnd
          /\ out[k].pos = 40
          /\ out[k].length = 1
          /\ Get(spans[m], "start_timestamp", 0) > LatestEnd
          /\ out[m].pos > 40

\* ------------------------------------------------------------------------
\* Configuration (config.py, utils.py)
\* ------------------------------------------------------------------------

\* `a or b` on str | None.
Or(a, b) == IF Truthy(a) THEN a ELSE b

\* sorted(names) of a set of strings.
RECURSIVE Sorted(_)
Sorted(S) ==
    IF S = {} THEN <<>>
    ELSE LET least == CHOOSE n \in S : \A m \in S : ~StrLess(m, n)
         IN  <<least>> \o Sorted(S \ {least})

\* ", ".join(names)
RECURSIVE Join(_)
Join(names) ==
    IF names = <<>> THEN ""
    ELSE IF Len(names) = 1 THEN names[1]
    ELSE names[1] \o ", " \o Join(Tail(names))

\* SentryProfile: the field defaults of the model class.
SentryProfile(url, org, project, auth_token) ==
    [url |-> url, org |-> org, project |-> project, auth_token |-> auth_token]

DefaultSentryProfile == SentryProfile("https://sentry.io", "sentry", "otel-collector", None)

\* AppConfig; names is the order of the profiles dict.
AppConfig(default_profile, names, profiles) ==
    [default_profile |-> default_profile, names |-> names, profiles |-> profiles]

\* os.environ.get(key) / os.getenv(key)
Getenv(env, key) == Get(env, key, None)

\* get_profile, line 76: the profile name that is looked up.
ProfileNameEnvFirst(config, profile, env) ==
    Or(Getenv(env, "SENTRY_PROFILE"), Or(profile, config.default_profile))
ProfileName(config, profile, env) ==
    Or(profile, Or(Getenv(env, "SENTRY_PROFILE"), config.default_profile))

\* get_profile: the profile, or the ConfigurationError with its message.
GetProfile(config, profile, env) ==
    LET profile_name == ProfileName(config, profile, env)
    IN  IF profile_name \notin DOMAIN config.profiles
        THEN [raised |-> "ConfigurationError",
              message |-> "Profile '" \o profile_name
                          \o "' not found. Available profiles: "
                          \o Join(Sorted(DOMAIN config.profiles))]
        ELSE [returned |-> config.profiles[profile_name]]

\* EnvOverrides as get_config fills it (utils.py).
EnvOverrides(cli_project, env) ==
    [cli_project |-> cli_project,
     url |-> Getenv(env, "SENTRY_URL"),
     org |-> Getenv(env, "SENTRY_ORG"),
     project |-> Getenv(env, "SENTRY_PROJECT"),
     auth_token |-> Getenv(env, "SENTRY_AUTH_TOKEN")]

\* `x if x is not None else y`
IfNotNone(x, y) == IF x # None THEN x ELSE y

\* resolve_sentry_config, lines 126-130: the project.
ResolveProjectEnvFirst(profile, overrides) ==
    IfNotNone(overrides.project, IfNotNone(overrides.cli_project, profile.project))
ResolveProject(profile, overrides) ==
    IfNotNone(overrides.cli_project, IfNotNone(overrides.project, profile.project))

\* resolve_sentry_config, line 121: the token is refused.
TokenMissingUnlessBlank(auth_token) == ~Truthy(auth_token)
TokenMissing(auth_token) == ~Truthy(auth_token) \/ ~Truthy(Strip(auth_token))

\* resolve_sentry_config with an EnvOverrides object.
ResolveSentryConfig(profile, overrides) ==
    LET auth_token == IfNotNone(overrides.auth_token, profile.auth_token)
    IN  IF TokenMissing(auth_token)
        THEN [raised |-> "ConfigurationError",
              message |-> "SENTRY_AUTH_TOKEN not set in profile or environment"]
        ELSE [returned |->
                [url |-> IfNotNone(overrides.url, profile.url),
                 org |-> IfNotNone(overrides.org, profile.org),
                 project |-> ResolveProject(profile, overrides),
                 auth_token |-> Strip(auth_token)]]

\* get_config: the resolved settings, or the ConfigurationError that it turns
\* into typer.Exit(1).
GetConfig(config, profile, project, env) ==
    LET profile_config == GetProfile(config, profile, env)
    IN  IF "raised" \in DOMAIN profile_config THEN profile_config
        ELSE ResolveSentryConfig(profile_config.returned, EnvOverrides(project, env))

\* ------------------------------------------------------------------------
\* config show (commands/config.py)
\* ------------------------------------------------------------------------

\* s[-n:]
Suffix(s, n) == IF Len(s) > n THEN SubSeq(s, Len(s) - n + 1, Len(s)) ELSE s

\* mask_token (utils.py)
MaskToken(token) == IF Truthy(token) THEN "***..." \o Suffix(token, 4) ELSE "(not set)"

\* Lines 39-45: the env dict of show.
ShowEnv(env) ==
    [profile |-> Getenv(env, "SENTRY_PROFILE"),
     url |-> Getenv(env, "SENTRY_URL"),
     org |-> Getenv(env, "SENTRY_ORG"),
     project |-> Getenv(env, "SENTRY_PROJECT"),
     auth_token |-> Getenv(env, "SENTRY_AUTH_TOKEN")]

\* Line 47: active_name.
ActiveName(config, env) == Or(ShowEnv(env).profile, config.default_profile)

\* Line 48: app_config.profiles.get(active_name) is a profile.
HasActiveProfile(config, env) == ActiveName(config, env) \in DOMAIN config.profiles

\* Lines 78-86: the profiles of the JSON form, by name.
JsonProfiles(config) ==
    [name \in DOMAIN config.profiles |->
        LET profile == config.profiles[name]
        IN  [url |-> profile.url, org |-> profile.org, project |-> profile.project,
             auth_token |-> MaskToken(profile.auth_token)]]

\* Lines 132-142: the rows of the profiles table, in the order of the dict.
ProfileRows(config) ==
    [k \in DOMAIN config.names |->
        LET name == config.names[k]
            profile == config.profiles[name]
        IN  [name |-> name,
             default |-> IF name = config.default_profile THEN "*" ELSE "",
             url |-> profile.url, org |-> profile.org, project |-> profile.project,
             auth_token |-> MaskToken(profile.auth_token)]]

\* _print_show_json: the printed object.
ShowJson(config, env) ==
    LET e == ShowEnv(env)
        active == HasActiveProfile(config, env)
        selected == config.profiles[ActiveName(config, env)]
        effective(field) ==
            IF e[field] # None THEN e[field]
            ELSE IF active THEN selected[field] ELSE None
        effective_token == Or(e.auth_token, IF active THEN selected.auth_token ELSE None)
    IN  <<[line |-> "json",
           default_profile |-> config.default_profile,
           active_profile |-> ActiveName(config, env),
           effective |-> [url |-> effective("url"), org |-> effective("org"),
                          project |-> effective("project"),
                          auth_token |-> MaskToken(effective_token)],
           profiles |-> JsonProfiles(config)]>>

\* Lines 107-110: the row of one setting.
SettingRow(field, env_key, e, active) ==
    [setting |-> field,
     value |-> IF Truthy(e[field]) THEN e[field] ELSE active[field],
     source |-> IF Truthy(e[field]) THEN env_key ELSE "profile"]

\* Lines 112-118: the row of the token.
TokenRow(e, active) ==
    LET auth_token == IF Truthy(e.auth_token) THEN e.auth_token ELSE active.auth_token
    IN  [setting |-> "auth_token", value |-> MaskToken(auth_token),
         source |-> IF Truthy(e.auth_token) /\ Truthy(auth_token)
                    THEN "SENTRY_AUTH_TOKEN" ELSE "profile"]

\* _print_show_tables: the printed lines.
ShowTables(config, env) ==
    LET e == ShowEnv(env)
        selected == config.profiles[ActiveName(config, env)]
    IN  <<[line |-> "default profile", default_profile |-> config.default_profile]>>
        \o (IF Truthy(e.profile) THEN <<[line |-> "override", profile |-> e.profile]>>
            ELSE <<>>)
        \o (IF HasActiveProfile(config, env)
            THEN RenderList(<<SettingRow("url", "SENTRY_URL", e, selected),
                              SettingRow("org", "SENTRY_ORG", e, selected),
                              SettingRow("project", "SENTRY_PROJECT", e, selected),
                              TokenRow(e, selected)>>,
                            "table", "Effective Settings")
            ELSE <<>>)
        \o (IF config.names = <<>>
            THEN <<[line |-> "print", event |-> "No profiles configured"]>>
            ELSE RenderList(ProfileRows(config), "table",
                            ToString(Len(config.names)) \o " profiles"))

\* ------------------------------------------------------------------------
\* Invocations of the CLI in one process
\* ------------------------------------------------------------------------

\* The profiles of the configuration files.
ProfileDefault == SentryProfile("https://sentry.io", "sentry", "otel-collector", "tok-default")

ProfileProd == SentryProfile("https://sentry.prod.example.com", "acme", "web", " tok-prod ")

ProfileDev == SentryProfile("http://localhost:9000", "sentry", "otel-collector", "  ")

\* What load_config returns: the defaults, or a file's content.
AppConfigs ==
    {AppConfig("default", <<"default">>, ("default" :> DefaultSentryProfile)),
     AppConfig("default", <<"prod", "default">>,
               ("prod" :> ProfileProd) @@ ("default" :> ProfileDefault)),
     AppConfig("prod", <<"prod", "dev">>, ("prod" :> ProfileProd) @@ ("dev" :> ProfileDev)),
     AppConfig("staging", <<"prod", "dev", "default">>,
               ("prod" :> ProfileProd) @@ ("dev" :> ProfileDev)
               @@ ("default" :> ProfileDefault)),
     AppConfig("default", <<>>, EmptyDict)}

\* The environment: each variable unset or set, also to an empty string.
Setting(key, values) == {EmptyDict} \cup {(key :> v) : v \in values}

Environs ==
    {p @@ u @@ o @@ j @@ t :
        p \in Setting("SENTRY_PROFILE", {"", "prod", "nope"}),
        u \in Setting("SENTRY_URL", {"", "https://env.example.com"}),
        o \in Setting("SENTRY_ORG", {"env-org"}),
        j \in Setting("SENTRY_PROJECT", {"env-project"}),
        t \in Setting("SENTRY_AUTH_TOKEN", {"", " ", " tok-env "})}

\* --profile and --project of an invocation.
ProfileFlags == {None, "", "prod", "nope"}

ProjectFlags == {None, "cli-project"}

\* The subcommands: "command" is any command that calls get_config.
Commands == {"command", "config show"}

InitConfig ==
    /\ app_config \in AppConfigs
    /\ environ \in Environs
    /\ active_profile = None
    /\ active_project = None
    /\ pc = "shell"
    /\ args = [cmd |-> "", format |-> "table", profile |-> None, project |-> None]
    /\ earlier = <<>>
    /\ out = <<>>
    /\ exit_code = None
    /\ events = <<>>
    /\ spans = <<>>
    /\ idx = 1
    /\ root_span_id = None
    /\ heap = EmptyDict
    /\ node_map = EmptyDict
    /\ order = <<>>
    /\ warnings = <<>>

\* A setter that keeps the previous value when the flag is absent.
SetActiveUnlessNone(previous, value) == IF value = None THEN previous ELSE value

\* set_active_profile / set_active_project: the global after the call.
SetActive(previous, value) == value

\* cli.py, callback: an invocation with its flags sets both globals, then the
\* subcommand is dispatched.  earlier keeps the flags of the invocation before.
Invoke ==
    /\ pc = "shell"
    /\ \E profile \in ProfileFlags : \E project \in ProjectFlags :
       \E cmd \in Commands : \E format \in Formats :
          /\ cmd = "command" => format = "table"
          /\ args' = [cmd |-> cmd, format |-> format, profile |-> profile,
                      project |-> project]
          /\ active_profile' = SetActive(active_profile, profile)
          /\ active_project' = SetActive(active_project, project)
    /\ earlier' = IF args.cmd = "" THEN <<>>
                  ELSE <<[profile |-> args.profile, project |-> args.project]>>
    /\ out' = <<>>
    /\ exit_code' = None
    /\ pc' = "dispatch"
    /\ UNCHANGED <<environ, app_config, events, spans, idx, building>>

\* A command calls get_config (utils.py): the settings, or typer.Exit(1).
RunGetConfig ==
    /\ pc = "dispatch"
    /\ args.cmd = "command"
    /\ LET config == GetConfig(app_config, active_profile, active_project, environ)
       IN  /\ out' = <<[line |-> "get_config",
                         profile |-> GetProfile(app_config, active_profile, environ),
                         config |-> config]>>
           /\ exit_code' = IF "raised" \in DOMAIN config THEN 1 ELSE 0
    /\ pc' = "shell"
    /\ UNCHANGED <<args, earlier, process, events, spans, idx, building>>

\* config show.
RunConfigShow ==
    /\ pc = "dispatch"
    /\ args.cmd = "config show"
    /\ out' = IF args.format = "json" THEN ShowJson(app_config, environ)
              ELSE ShowTables(app_config, environ)
    /\ exit_code' = 0
    /\ pc' = "shell"
    /\ UNCHANGED <<args, earlier, process, events, spans, idx, building>>

NextConfig == Invoke \/ RunGetConfig \/ RunConfigShow

SpecConfig == InitConfig /\ [][NextConfig]_vars

\* A command that calls get_config has run.
CommandRan == pc = "shell" /\ args.cmd = "command"

\* config show has run.
ShowRan == pc = "shell" /\ args.cmd = "config show"

\* The value of an environment variable that is set and not empty, else other.
SetOrElse(key, other) ==
    IF key \in DOMAIN environ /\ environ[key] # "" THEN environ[key] ELSE other

\* The value of an environment variable that is set, else other.
GivenOrElse(key, other) == IF key \in DOMAIN environ THEN environ[key] ELSE other

\* The configured names in ascending order.
Ascending(names) ==
    CHOOSE seq \in [1..Cardinality(names) -> names] :
        \A i, j \in DOMAIN seq : i < j => StrLess(seq[i], seq[j])

\* C21: get_profile takes the name from its argument, else from
\* SENTRY_PROFILE, else from config.default_profile (a name that is None or
\* empty counts as not given); it returns the profile configured under that
\* name, and when none is, raises ConfigurationError naming the requested
\* name and the configured names in sorted order: never another profile.
C21_ProfileByPrecedence ==
    CommandRan =>
        LET name == IF active_profile # None /\ active_profile # ""
                    THEN active_profile
                    ELSE SetOrElse("SENTRY_PROFILE", app_config.default_profile)
            got == out[1].profile
        IN  IF name \in DOMAIN app_config.profiles
            THEN got = [returned |-> app_config.profiles[name]]
            ELSE got = [raised |-> "ConfigurationError",
                        message |-> "Profile '" \o name
                                    \o "' not found. Available profiles: "
                                    \o Join(Ascending(DOMAIN app_config.profiles))]

\* The argument beats SENTRY_PROFILE, which names no profile; and a state
\* where the name is not configured although other profiles are.
C21_Witness ==
    /\ CommandRan
    /\ active_profile = "prod"
    /\ Getenv(environ, "SENTRY_PROFILE") = "nope"
    /\ app_config.default_profile = "default"
    /\ out[1].profile = [returned |-> ProfileProd]

C21_WitnessMissing ==
    /\ CommandRan
    /\ active_profile = None
    /\ Getenv(environ, "SENTRY_PROFILE") = "nope"
    /\ app_config.names = <<"prod", "default">>
    /\ "raised" \in DOMAIN out[1].profile
    /\ out[1].profile.message
         = "Profile 'nope' not found. Available profiles: default, prod"

\* C22: when resolve_sentry_config returns, project is the CLI flag, else
\* SENTRY_PROJECT, else the profile's project; url and org are SENTRY_URL and
\* SENTRY_ORG, else the profile's; a setting with no override is the
\* profile's value.
C22_SettingsByPrecedence ==
    (CommandRan /\ "returned" \in DOMAIN out[1].config) =>
        LET profile == out[1].profile.returned
            config == out[1].config.returned
        IN  /\ config.project
                 = IF active_project # None THEN active_project
                   ELSE GivenOrElse("SENTRY_PROJECT", profile.project)
            /\ config.url = GivenOrElse("SENTRY_URL", profile.url)
            /\ config.org = GivenOrElse("SENTRY_ORG", profile.org)

\* The flag beats SENTRY_PROJECT, SENTRY_ORG beats the profile, and url,
\* which has no override, is the profile's.
C22_Witness ==
    /\ CommandRan
    /\ "returned" \in DOMAIN out[1].config
    /\ active_project = "cli-project"
    /\ Getenv(environ, "SENTRY_PROJECT") = "env-project"
    /\ Getenv(environ, "SENTRY_ORG") = "env-org"
    /\ "SENTRY_URL" \notin DOMAIN environ
    /\ out[1].config.returned.project = "cli-project"
    /\ out[1].config.returned.org = "env-org"
    /\ out[1].config.returned.url = "https://sentry.prod.example.com"

\* A string of whitespace only (the empty string included).
OnlyWhitespace(s) == \A k \in 1..Len(s) : CharAt(s, k) \in Whitespace

\* C23: once the profile is found, resolve_sentry_config raises
\* ConfigurationError exactly when the effective token (SENTRY_AUTH_TOKEN
\* when set, else the profile's) is None, empty or whitespace only, and the
\* command exits with code 1; a returned auth_token is not empty and neither
\* begins nor ends with whitespace.
C23_TokenRequired ==
    (CommandRan /\ "returned" \in DOMAIN out[1].profile) =>
        LET token == GivenOrElse("SENTRY_AUTH_TOKEN", out[1].profile.returned.auth_token)
            config == out[1].config
        IN  IF token = None \/ OnlyWhitespace(token)
            THEN /\ config = [raised |-> "ConfigurationError",
                              message |-> "SENTRY_AUTH_TOKEN not set in profile or environment"]
                 /\ exit_code = 1
            ELSE /\ "returned" \in DOMAIN config
                 /\ config.returned.auth_token # ""
                 /\ CharAt(config.returned.auth_token, 1) \notin Whitespace
                 /\ CharAt(config.returned.auth_token,
                           Len(config.returned.auth_token)) \notin Whitespace

\* A whitespace-only SENTRY_AUTH_TOKEN hides the profile's token: raised.
C23_Witness ==
    /\ CommandRan
    /\ "returned" \in DOMAIN out[1].profile
    /\ out[1].profile.returned.auth_token = " tok-prod "
    /\ Getenv(environ, "SENTRY_AUTH_TOKEN") = " "
    /\ "raised" \in DOMAIN out[1].config
    /\ exit_code = 1

\* A token with surrounding whitespace is returned stripped.
C23_WitnessStripped ==
    /\ CommandRan
    /\ Getenv(environ, "SENTRY_AUTH_TOKEN") = " tok-env "
    /\ "returned" \in DOMAIN out[1].config
    /\ out[1].config.returned.auth_token = "tok-env"

\* C29: in every invocation, from the dispatch of the subcommand on, the two
\* globals are the --profile and --project of this invocation (None when the
\* flag is absent), and this is what get_config resolves from.
C29_GlobalsAreThisInvocations ==
    (args.cmd # "") =>
        /\ active_profile = args.profile
        /\ active_project = args.project
        /\ CommandRan =>
             out[1].config = GetConfig(app_config, args.profile, args.project, environ)

\* A command without flags after an invocation with both flags.
C29_Witness ==
    /\ CommandRan
    /\ earlier # <<>>
    /\ earlier[1].profile = "prod"
    /\ earlier[1].project = "cli-project"
    /\ args.profile = None
    /\ args.project = None
    /\ active_profile = None
    /\ active_project = None

\* The table of effective settings, if config show printed one.
EffectiveTables ==
    {k \in DOMAIN out : out[k].line = "table" /\ out[k].footer = "Effective Settings"}

\* The value of a row of the effective settings table.
ShownValue(k, field) ==
    LET row == CHOOSE r \in Range(out[k].rows) : r.setting = field IN row.value

\* The profile name the table form shows as active: the override if one is
\* printed, else the default profile.
ShownName ==
    IF \E k \in DOMAIN out : out[k].line = "override"
    THEN out[CHOOSE k \in DOMAIN out : out[k].line = "override"].profile
    ELSE out[1].default_profile

\* C30: what config show reports as the active profile and the effective
\* url, org, project and (masked) token is what get_config resolves under
\* the same file, environment and flags; when get_config fails, no usable
\* token is reported.
C30_ShowAgreesWithGetConfig ==
    ShowRan =>
        LET name == ProfileName(app_config, active_profile, environ)
            config == GetConfig(app_config, active_profile, active_project, environ)
        IN  IF args.format = "json"
            THEN /\ out[1].active_profile = name
                 /\ IF "returned" \in DOMAIN config
                    THEN out[1].effective
                           = [url |-> config.returned.url,
                              org |-> config.returned.org,
                              project |-> config.returned.project,
                              auth_token |-> MaskToken(config.returned.auth_token)]
                    ELSE out[1].effective.auth_token = "(not set)"
            ELSE /\ ShownName = name
                 /\ IF "returned" \in DOMAIN config
                    THEN /\ EffectiveTables # {}
                         /\ \A k \in EffectiveTables :
                              /\ ShownValue(k, "url") = config.returned.url
                              /\ ShownValue(k, "org") = config.returned.org
                              /\ ShownValue(k, "project") = config.returned.project
                              /\ ShownValue(k, "auth_token")
                                   = MaskToken(config.returned.auth_token)
                    ELSE \A k \in EffectiveTables :
                              ShownValue(k, "auth_token") = "(not set)"

\* ------------------------------------------------------------------------
\* config validate and config list-projects (commands/config.py)
\* ------------------------------------------------------------------------

\* What api_call ends with: the projects of the organization, NotFoundError,
\* or another exception (RetryError after the third failed attempt).
ApiResults ==
    {[returned |-> <<>>],
     [returned |-> <<("slug" :> "web")>>],
     [returned |-> <<("slug" :> "web"), EmptyDict>>],
     [raised |-> "NotFoundError"],
     [raised |-> "RetryError"]}

\* f"/organizations/{profile.org}/projects/"
ProjectsEndpoint(profile) == "/organizations/" \o profile.org \o "/projects/"

\* [proj.get("slug", "unknown") for proj in projects]
Slugs(projects) == [k \in DOMAIN projects |-> Get(projects[k], "slug", "unknown")]

\* validate, lines 298-305: the row of a profile without a usable token.
ValidateNoToken(profile_name) ==
    <<[profile |-> profile_name, status |-> "FAIL",
       projects |-> "No auth token configured"]>>

\* A validate that reports only the profiles that answered.
ValidateRowsAnswered(profile_name, profile, result) ==
    IF "returned" \in DOMAIN result
    THEN <<[profile |-> profile_name, status |-> "OK", projects |-> "answered"]>>
    ELSE <<>>

\* validate, lines 307-336: the row of a profile after its api_call.  The
\* dash of the OK row is an em dash in the source.
ValidateRows(profile_name, profile, result) ==
    IF "returned" \in DOMAIN result
    THEN LET slugs == Slugs(result.returned)
             slugs_str == IF slugs # <<>> THEN Join(slugs) ELSE "(none)"
         IN  <<[profile |-> profile_name, status |-> "OK",
                projects |-> ToString(Len(result.returned)) \o " projects -- "
                             \o slugs_str]>>
    ELSE IF result.raised = "NotFoundError"
    THEN <<[profile |-> profile_name, status |-> "FAIL",
            projects |-> "Organization '" \o profile.org \o "' not found"]>>
    ELSE <<[profile |-> profile_name, status |-> "FAIL", projects |-> result.raised]>>

\* list_projects, lines 230-233: the row of a profile without a usable token.
ListProjectsNoToken(profile_name) ==
    <<[profile |-> profile_name, project |-> "(no auth token)"]>>

\* list_projects, lines 235-258: the rows of a profile after its api_call.
ListProjectsRows(profile_name, profile, result) ==
    IF "returned" \in DOMAIN result
    THEN IF result.returned = <<>>
         THEN <<[profile |-> profile_name, project |-> "(no projects)"]>>
         ELSE [k \in DOMAIN result.returned |->
                  [profile |-> profile_name, project |-> Slugs(result.returned)[k]]]
    ELSE IF result.raised = "NotFoundError"
    THEN <<[profile |-> profile_name,
            project |-> "(org '" \o profile.org \o "' not found)"]>>
    ELSE <<[profile |-> profile_name,
            project |-> "(error: " \o result.raised \o ")"]>>

\* The two commands.
ProfileCommands == {"validate", "list-projects"}

\* The command has loaded the configuration; rows is empty and the loop over
\* app_config.profiles.items() is at its first item.
InitProfiles ==
    /\ app_config \in AppConfigs
    /\ \E cmd \in ProfileCommands : \E format \in Formats :
          args = [cmd |-> cmd, format |-> format, rows |-> <<>>]
    /\ pc = "profiles"
    /\ idx = 1
    /\ out = <<>>
    /\ exit_code = None
    /\ environ = EmptyDict
    /\ active_profile = None
    /\ active_project = None
    /\ earlier = <<>>
    /\ events = <<>>
    /\ spans = <<>>
    /\ root_span_id = None
    /\ heap = EmptyDict
    /\ node_map = EmptyDict
    /\ order = <<>>
    /\ warnings = <<>>

\* if not app_config.profiles: the message, and the command returns.
NoProfiles ==
    /\ pc = "profiles"
    /\ app_config.names = <<>>
    /\ out' = <<[line |-> "print", event |-> "No profiles configured."]>>
    /\ exit_code' = 0
    /\ pc' = "done"
    /\ UNCHANGED <<args, idx, earlier, process, events, spans, building>>

\* One iteration for a profile whose token is missing or blank: continue.
VisitNoToken ==
    /\ pc = "profiles"
    /\ idx <= Len(app_config.names)
    /\ LET profile_name == app_config.names[idx]
           profile == app_config.profiles[profile_name]
       IN  /\ TokenMissing(profile.auth_token)
           /\ args' = [args EXCEPT !.rows =
                 @ \o (IF args.cmd = "validate" THEN ValidateNoToken(profile_name)
                       ELSE ListProjectsNoToken(profile_name))]
    /\ idx' = idx + 1
    /\ UNCHANGED <<out, exit_code, pc, earlier, process, events, spans, building>>

\* One iteration for a profile with a token: api_call, and the rows of what
\* it ends with.
VisitApi ==
    /\ pc = "profiles"
    /\ idx <= Len(app_config.names)
    /\ LET profile_name == app_config.names[idx]
           profile == app_config.profiles[profile_name]
       IN  /\ ~TokenMissing(profile.auth_token)
           /\ \E result \in ApiResults :
                 /\ out' = Append(out, [line |-> "api_call",
                                        endpoint |-> ProjectsEndpoint(profile),
                                        token |-> Strip(profile.auth_token),
                                        base_url |-> profile.url,
                                        result |-> result])
                 /\ args' = [args EXCEPT !.rows =
                       @ \o (IF args.cmd = "validate"
                             THEN ValidateRows(profile_name, profile, result)
                             ELSE ListProjectsRows(profile_name, profile, result))]
    /\ idx' = idx + 1
    /\ UNCHANGED <<exit_code, pc, earlier, process, events, spans, building>>

\* After the loop: render(rows, format), and the command returns.
RenderRows ==
    /\ pc = "profiles"
    /\ app_config.names # <<>>
    /\ idx > Len(app_config.names)
    /\ out' = out \o RenderList(args.rows, args.format, None)
    /\ exit_code' = 0
    /\ pc' = "done"
    /\ UNCHANGED <<args, idx, earlier, process, events, spans, building>>

NextProfiles == NoProfiles \/ VisitNoToken \/ VisitApi \/ RenderRows

SpecProfiles == InitProfiles /\ [][NextProfiles]_vars

\* The api_call lines printed so far, in order.
ApiCalls == SelectSeq(out, LAMBDA l : l.line = "api_call")

\* The positions of the profiles that have a usable token, in dict order.
RECURSIVE UsableFrom(_)
UsableFrom(k) ==
    IF k > Len(app_config.names) THEN <<>>
    ELSE LET token == app_config.profiles[app_config.names[k]].auth_token
         IN  (IF token # None /\ ~OnlyWhitespace(token) THEN <<k>> ELSE <<>>)
             \o UsableFrom(k + 1)

\* The call made for the profile at position k (which has a usable token).
CallOf(k) ==
    ApiCalls[CHOOSE j \in DOMAIN UsableFrom(1) : UsableFrom(1)[j] = k]

\* The profile at position k failed: no usable token, or its call raised.
ProfileFailed(k) ==
    \/ k \notin Range(UsableFrom(1))
    \/ "raised" \in DOMAIN CallOf(k).result

\* The rows of the profile at position k.
RowsOf(k) == SelectSeq(args.rows, LAMBDA r : r.profile = app_config.names[k])

\* The texts of a failure row of list-projects.
FailureText(text) == Len(text) > 0 /\ CharAt(text, 1) = "("

\* C24: when validate or list-projects ends, one api_call has been made for
\* every profile with a usable token, in dict order, whatever the earlier
\* profiles ended with; the exit code is 0; a failed profile has one failure
\* row and the rows of the other profiles are those of their own answers;
\* validate has exactly one row per profile, in dict order.
C24_EveryProfileVisited ==
    (pc = "done") =>
        LET names == app_config.names
            usable == UsableFrom(1)
        IN  /\ exit_code = 0
            /\ Len(ApiCalls) = Len(usable)
            /\ \A j \in DOMAIN usable :
                  LET profile == app_config.profiles[names[usable[j]]]
                  IN  /\ ApiCalls[j].endpoint = ProjectsEndpoint(profile)
                      /\ ApiCalls[j].base_url = profile.url
            /\ \A k \in DOMAIN names :
                  /\ RowsOf(k) # <<>>
                  /\ IF args.cmd = "validate"
                     THEN /\ Len(RowsOf(k)) = 1
                          /\ RowsOf(k)[1].status
                               = IF ProfileFailed(k) THEN "FAIL" ELSE "OK"
                     ELSE IF ProfileFailed(k)
                          THEN /\ Len(RowsOf(k)) = 1
                               /\ FailureText(RowsOf(k)[1].project)
                          ELSE \/ /\ CallOf(k).result.returned = <<>>
                                  /\ RowsOf(k) = <<[profile |-> names[k],
                                                    project |-> "(no projects)"]>>
                               \/ /\ Len(RowsOf(k)) = Len(CallOf(k).result.returned)
                                  /\ \A n \in DOMAIN RowsOf(k) :
                                        ~FailureText(RowsOf(k)[n].project)
            /\ \A m, n \in DOMAIN args.rows :
                  (m < n) =>
                     \E k, l \in DOMAIN names :
                        /\ k <= l
                        /\ args.rows[m].profile = names[k]
                        /\ args.rows[n].profile = names[l]
            /\ args.cmd = "validate" =>
                  /\ Len(args.rows) = Len(names)
                  /\ \A k \in DOMAIN names : args.rows[k].profile = names[k]
            /\ names # <<>> =>
                  out = ApiCalls \o RenderList(args.rows, args.format, None)

\* validate over prod, dev, default: the organization of prod answers 404,
\* dev has a blank token, and default is still queried and reported OK.
C24_Witness ==
    /\ pc = "done"
    /\ args.cmd = "validate"
    /\ app_config.names = <<"prod", "dev", "default">>
    /\ Len(ApiCalls) = 2
    /\ ApiCalls[1].result = [raised |-> "NotFoundError"]
    /\ ApiCalls[2].result = [returned |-> <<("slug" :> "web")>>]
    /\ args.rows[1].status = "FAIL"
    /\ args.rows[2] = [profile |-> "dev", status |-> "FAIL",
                       projects |-> "No auth token configured"]
    /\ args.rows[3] = [profile |-> "default", status |-> "OK",
                       projects |-> "1 projects -- web"]
    /\ exit_code = 0

\* list-projects over the same profiles: another exception for prod, and
\* default is still queried and listed.
C24_WitnessListProjects ==
    /\ pc = "done"
    /\ args.cmd = "list-projects"
    /\ app_config.names = <<"prod", "dev", "default">>
    /\ args.rows = <<[profile |-> "prod", project |-> "(error: RetryError)"],
                     [profile |-> "dev", project |-> "(no auth token)"],
                     [profile |-> "default", project |-> "web"],
                     [profile |-> "default", project |-> "unknown"]>>
    /\ exit_code = 0

====
